---- MODULE Spec2Model ----
(***************************************************************************)
(* Model of the prompt composition and queuing engine of ai-tui.           *)
(*                                                                         *)
(* Part I  : useMessageQueue (packages/core/src/hooks/use-message-queue.ts)*)
(*           as a React hook: state committed by renders, functional and   *)
(*           plain setQueue updates, refs, the passive drain effect and    *)
(*           its deferred send.                                            *)
(* Part II : the prompt editor (packages/core/src/components/prompt):      *)
(*           the text buffer, its extmarks (annotations), the Part list,   *)
(*           candidate insertion, pastes, segment derivation and the       *)
(*           submit payload.                                               *)
(*                                                                         *)
(* Text is a sequence of characters; a model character written with more   *)
(* than one letter ("file://", "%20", "[Image") stands for that run of     *)
(* source characters and counts as one position.                           *)
(***************************************************************************)
EXTENDS Integers, Sequences, FiniteSets, TLC

(***************************************************************************)
(* Bounds of the model.                                                    *)
(***************************************************************************)
\* submitMessage calls with non-blank content in one behaviour
MaxSubmits == 5
\* setQueue updates that event handlers may leave pending before a render
MaxPending == 2
\* the hook's maxQueueSize option (the caller's choice; the default is 10)
maxQueueSize == 2
\* length of the buffers the segment functions are applied to
MaxInput == 3
\* Parts in one prompt
MaxParts == 2
\* user events (keys, pastes, cursor moves) in one behaviour of the editor
MaxEdits == 4
\* MAX_HISTORY_ENTRIES (50 in the source)
MAX_HISTORY_ENTRIES == 2
\* MAX_STASH_ENTRIES (50 in the source)
MAX_STASH_ENTRIES == 2
\* MAX_FRECENCY_ENTRIES (1000 in the source)
MAX_FRECENCY_ENTRIES == 2
\* calls made to a store
MaxStoreOps == 5

(***************************************************************************)
(* Part I : state of useMessageQueue                                       *)
(***************************************************************************)
VARIABLES
    status,          \* the status prop as seen by the last render
    queue,           \* the queue state committed by the last render
    updates,         \* setQueue calls not yet applied by a render
    isProcessingRef, \* isProcessingRef.current
    prevStatusRef,   \* prevStatusRef.current
    effectPending,   \* the last render's passive effect has not run yet
    timers,          \* setTimeout(..., 0) callbacks not yet run
    sent,            \* log of the sendMessage calls
    requested,       \* a sendMessage call the transport has not yet reflected in status
    inflight,        \* sendMessage calls since the agent was last idle
    nextId,          \* ordinal of the next accepted submitMessage call
    cleared,         \* ids that were queued when clearQueue was called
    tainted          \* clearQueue/removeFromQueue or an overflow drop happened

qvars == <<status, queue, updates, isProcessingRef, prevStatusRef, effectPending,
           timers, sent, requested, inflight, nextId, cleared, tainted>>

(***************************************************************************)
(* Part II : state of the prompt                                           *)
(***************************************************************************)
VARIABLES
    plainText,       \* textarea.plainText
    cursorOffset,    \* textarea.cursorOffset
    extmarks,        \* textarea.extmarks: the live annotations [id, start, end]
    nextExtmarkId,   \* the id extmarks.create returns next
    extmarkToPartIndexRef, \* extmarkToPartIndexRef.current, as a set of <<id, index>>
    input,           \* promptInfo.input as seen by the last render
    parts,           \* promptInfo.parts as seen by the last render
    promptUpdates,   \* setPromptInfo calls not yet applied by a render
    visible,         \* autocomplete state.visible as seen by the last render
    triggerIndex,    \* state.triggerIndex as seen by the last render
    selectedIndex,   \* state.selectedIndex as seen by the last render
    stateUpdates,    \* setState calls of the autocomplete not yet applied
    filter,          \* the memoised filter text of the last render
    autocompleteOptions, \* the options as seen by the last render
    optionsUpdates,  \* setAutocompleteOptions calls not yet applied
    showTimers,      \* setTimeout(onShow, 0) callbacks not yet run, by trigger
    requests,        \* file searches in flight
    suspendCount,    \* the command context's keybind suspend count
    segments,        \* <<s>> for the last result s of deriveSegments, or <<>>
    prepared,        \* <<r>> for the last result r of prepareMessageForSubmit, or <<>>
    submitted,       \* the arguments of the onSubmit calls
    edits,           \* user events handled so far
    lastEvent        \* the name of the last user event

\* the textarea
tvars == <<plainText, cursorOffset, extmarks, nextExtmarkId>>
\* what the last render of the prompt saw
rvars == <<input, parts, visible, triggerIndex, selectedIndex, filter,
           autocompleteOptions>>
\* state updates waiting for the next render
uvars == <<promptUpdates, stateUpdates, optionsUpdates>>
\* refs, timers and contexts
avars == <<extmarkToPartIndexRef, showTimers, requests, suspendCount>>

\* the prompt editor
evars == <<tvars, rvars, uvars, avars, segments, prepared, submitted, edits, lastEvent>>

(***************************************************************************)
(* Part III state: the persistent stores of the prompt.  The three stores  *)
(* are separate closures over separate files and share no state; a         *)
(* behaviour exercises the one named by store.                             *)
(***************************************************************************)
VARIABLES
    store,           \* the store the calls go to
    hItems,          \* createHistory: items
    hIndex,          \* createHistory: index
    hLoaded,         \* createHistory: loaded
    hFile,           \* the lines of prompt-history.jsonl
    sEntries,        \* createStash: entries
    sLoaded,         \* createStash: loaded
    sFile,           \* the lines of the stash file
    fData,           \* createFrecencyTracker: data, in insertion order
    fLoaded,         \* createFrecencyTracker: loaded
    fFile,           \* the lines of frecency.jsonl
    now,             \* the last value Date.now() returned
    call,            \* the last call: name, arguments, return value, outcome
    storeOps,        \* number of calls made
    loading          \* the load() that has not settled: its phase, the lines read

hvars == <<hItems, hIndex, hLoaded, hFile>>
stvars == <<sEntries, sLoaded, sFile>>
fvars == <<fData, fLoaded, fFile, now>>
svars == <<store, hvars, stvars, fvars, call, storeOps, loading>>

pvars == <<evars, svars>>

vars == <<qvars, pvars>>

Busy == {"submitted", "streaming"}
Statuses == {"ready", "submitted", "streaming", "error"}

\* a QueuedMessage; the id stands for id, text and queuedAt (all fixed at submit)
QueuedMessage(n) == [id |-> n]

(***************************************************************************)
(* setQueue updaters                                                       *)
(***************************************************************************)
RECURSIVE FilterOut(_, _)
FilterOut(q, id) ==
    IF q = <<>> THEN <<>>
    ELSE IF Head(q).id = id THEN FilterOut(Tail(q), id)
         ELSE <<Head(q)>> \o FilterOut(Tail(q), id)

\* a bug that would drop the newest message on overflow
EnqueueDropNewest(prev, m) ==
    IF Len(prev) >= maxQueueSize THEN prev ELSE Append(prev, m)

\* submitMessage's updater: prev => prev.length >= max ? [...prev.slice(1), m] : [...prev, m]
Enqueue(prev, m) ==
    IF Len(prev) >= maxQueueSize
    THEN Append(Tail(prev), m)
    ELSE Append(prev, m)

\* one pending setQueue call applied to the state before it
ApplyUpdate(q, u) ==
    CASE u.op = "enqueue" -> Enqueue(q, u.msg)
      [] u.op = "set"     -> u.val
      [] u.op = "filter"  -> FilterOut(q, u.id)

RECURSIVE ApplyAll(_, _)
ApplyAll(q, us) ==
    IF us = <<>> THEN q ELSE ApplyAll(ApplyUpdate(q, Head(us)), Tail(us))

\* the queue state React holds: the committed state with the pending calls applied
Pending == ApplyAll(queue, updates)

Ids(q) == {q[i].id : i \in 1..Len(q)}

(***************************************************************************)
(* sendMessage as seen by the hook: an opaque call; the transport turns    *)
(* the status to submitted in a later status update                        *)
(***************************************************************************)
SendMessage(m, via) ==
    /\ sent' = Append(sent, [id |-> m.id, via |-> via, status |-> status,
                             busy |-> (requested \/ status \in Busy)])
    /\ requested' = TRUE
    /\ inflight' = inflight + 1

(***************************************************************************)
(* submitMessage                                                           *)
(***************************************************************************)
\* isReady && !isProcessingRef.current
CanSendNow(st, processing) == st = "ready" /\ ~processing

submitMessage ==
    \E blank \in BOOLEAN :
        IF blank
        THEN UNCHANGED vars
        ELSE /\ nextId <= MaxSubmits
             /\ nextId' = nextId + 1
             /\ IF CanSendNow(status, isProcessingRef)
                THEN /\ SendMessage(QueuedMessage(nextId), "submit")
                     /\ UNCHANGED <<updates, tainted>>
                ELSE /\ Len(updates) < MaxPending
                     /\ updates' = Append(updates,
                                     [op |-> "enqueue", msg |-> QueuedMessage(nextId)])
                     /\ tainted' = (tainted \/ Len(Pending) >= maxQueueSize)
                     /\ UNCHANGED <<sent, requested, inflight>>
             /\ UNCHANGED <<status, queue, isProcessingRef, prevStatusRef,
                            effectPending, timers, cleared, pvars>>

clearQueue ==
    /\ Len(updates) < MaxPending
    /\ updates' = Append(updates, [op |-> "set", val |-> <<>>])
    /\ cleared' = cleared \cup Ids(Pending)
    /\ tainted' = TRUE
    /\ UNCHANGED <<status, queue, isProcessingRef, prevStatusRef, effectPending,
                   timers, sent, requested, inflight, nextId, pvars>>

removeFromQueue ==
    \E id \in Ids(Pending) :
        /\ Len(updates) < MaxPending
        /\ updates' = Append(updates, [op |-> "filter", id |-> id])
        /\ tainted' = TRUE
        /\ UNCHANGED <<status, queue, isProcessingRef, prevStatusRef, effectPending,
                       timers, sent, requested, inflight, nextId, cleared, pvars>>

(***************************************************************************)
(* rendering: React applies the pending setQueue calls in order; the       *)
(* effect of the render runs later (useEffect is passive), and before the  *)
(* next render                                                             *)
(***************************************************************************)
Render ==
    /\ updates # <<>>
    /\ ~effectPending
    /\ queue' = Pending
    /\ updates' = <<>>
    /\ effectPending' = TRUE
    /\ UNCHANGED <<status, isProcessingRef, prevStatusRef, timers, sent,
                   requested, inflight, nextId, cleared, tainted, pvars>>

\* a status update of the transport and the render that shows it to the hook
StatusUpdate(s) ==
    /\ ~effectPending
    /\ status' = s
    /\ queue' = Pending
    /\ updates' = <<>>
    /\ effectPending' = TRUE
    /\ UNCHANGED <<isProcessingRef, prevStatusRef, timers, sent, nextId,
                   cleared, tainted, pvars>>

ChatSubmitted ==
    /\ requested
    /\ StatusUpdate("submitted")
    /\ requested' = FALSE
    /\ UNCHANGED inflight

ChatStreaming ==
    /\ status = "submitted"
    /\ StatusUpdate("streaming")
    /\ UNCHANGED <<requested, inflight>>

ChatReady ==
    /\ status \in Busy
    /\ StatusUpdate("ready")
    /\ inflight' = 0
    /\ UNCHANGED requested

ChatError ==
    /\ status \in Busy
    /\ StatusUpdate("error")
    /\ inflight' = 0
    /\ UNCHANGED requested

(***************************************************************************)
(* the drain effect and its deferred send                                  *)
(***************************************************************************)
\* a bug that would leave the drained message in the queue
RemainingQueueKeepHead(q) == q

\* const [nextMessage, ...remainingQueue] = queue
RemainingQueue(q) == Tail(q)

\* wasNotReady && isNowReady && queue.length > 0 && !isProcessingRef.current
ShouldDrain(prev, st, q, processing) ==
    /\ prev \in Busy
    /\ st = "ready"
    /\ Len(q) > 0
    /\ ~processing

DrainEffect ==
    /\ effectPending
    /\ effectPending' = FALSE
    /\ prevStatusRef' = status
    /\ IF ShouldDrain(prevStatusRef, status, queue, isProcessingRef)
       THEN /\ isProcessingRef' = TRUE
            /\ updates' = Append(updates, [op |-> "set", val |-> RemainingQueue(queue)])
            /\ timers' = Append(timers, Head(queue))
       ELSE UNCHANGED <<isProcessingRef, updates, timers>>
    /\ UNCHANGED <<status, queue, sent, requested, inflight, nextId, cleared, tainted,
                   pvars>>

DeferredSend ==
    /\ timers # <<>>
    /\ SendMessage(Head(timers), "drain")
    /\ isProcessingRef' = FALSE
    /\ timers' = Tail(timers)
    /\ UNCHANGED <<status, queue, updates, prevStatusRef, effectPending, nextId,
                   cleared, tainted, pvars>>

QInit ==
    /\ status = "ready"
    /\ queue = <<>>
    /\ updates = <<>>
    /\ isProcessingRef = FALSE
    /\ prevStatusRef = "ready"
    /\ effectPending = TRUE
    /\ timers = <<>>
    /\ sent = <<>>
    /\ requested = FALSE
    /\ inflight = 0
    /\ nextId = 1
    /\ cleared = {}
    /\ tainted = FALSE


QNext ==
    \/ submitMessage
    \/ clearQueue
    \/ removeFromQueue
    \/ Render
    \/ ChatSubmitted
    \/ ChatStreaming
    \/ ChatReady
    \/ ChatError
    \/ DrainEffect
    \/ DeferredSend

(***************************************************************************)
(* Part II : text                                                          *)
(***************************************************************************)
Min(a, b) == IF a <= b THEN a ELSE b

\* String.prototype.slice(a, b) for non-negative a and b (offsets are 0-based)
Slice(s, a, b) ==
    LET lo == Min(a, Len(s))
        hi == Min(b, Len(s))
    IN  IF lo >= hi THEN <<>> ELSE SubSeq(s, lo + 1, hi)

\* String.prototype.charAt(i): the empty string beyond the end
CharAt(s, i) == IF i < Len(s) THEN s[i + 1] ELSE ""

\* String.prototype.includes(c) for a single character
Includes(s, c) == \E k \in 1..Len(s) : s[k] = c

\* the characters /\s/ matches
Whitespace == {" ", "\n", "\t"}

\* String.prototype.trim()
RECURSIVE TrimStart(_)
TrimStart(s) ==
    IF s # <<>> /\ Head(s) \in Whitespace THEN TrimStart(Tail(s)) ELSE s

RECURSIVE TrimEnd(_)
TrimEnd(s) ==
    IF s # <<>> /\ s[Len(s)] \in Whitespace
    THEN TrimEnd(SubSeq(s, 1, Len(s) - 1))
    ELSE s

Trim(s) == TrimEnd(TrimStart(s))

(***************************************************************************)
(* file URLs (lib/file-search.ts) and the WHATWG URL parser as far as the  *)
(* prompt uses it: the scheme, the path with the characters of the path    *)
(* percent-encode set escaped, and the start/end query parameters          *)
(***************************************************************************)
\* process.cwd()
Cwd == <<"/", "w">>

\* the URL parser escapes a space of the path as %20
RECURSIVE PercentEncode(_)
PercentEncode(s) ==
    IF s = <<>> THEN <<>>
    ELSE <<IF Head(s) = " " THEN "%20" ELSE Head(s)>> \o PercentEncode(Tail(s))

\* lineRange of extractLineRange: none, a start line, or a start and an end line
NoLineRange == [has |-> FALSE, startLine |-> "", hasEnd |-> FALSE, endLine |-> ""]
LineRange(startLine) ==
    [has |-> TRUE, startLine |-> startLine, hasEnd |-> FALSE, endLine |-> ""]
LineRangeTo(startLine, endLine) ==
    [has |-> TRUE, startLine |-> startLine, hasEnd |-> TRUE, endLine |-> endLine]

\* buildFileUrl: `file://${cwd}/${filePath}`, re-serialised by URL when a
\* line range sets the start/end parameters
BuildFileUrl(filePath, cwd, lineRange) ==
    LET url == <<"file://">> \o cwd \o <<"/">> \o filePath
    IN  IF lineRange.has
        THEN <<"file://">> \o PercentEncode(cwd \o <<"/">> \o filePath)
                 \o <<"?start=", lineRange.startLine>>
                 \o (IF lineRange.hasEnd THEN <<"&end=", lineRange.endLine>> ELSE <<>>)
        ELSE url

\* new URL(url) throws unless the string starts with a scheme
ValidUrl(url) == url # <<>> /\ url[1] \in {"file://", "data:"}

\* offset of the query, or the length of the url
QueryIndex(url) ==
    IF Includes(url, "?start=")
    THEN (CHOOSE k \in 1..Len(url) :
              url[k] = "?start=" /\ \A j \in 1..(k - 1) : url[j] # "?start=") - 1
    ELSE Len(url)

\* parsed.pathname
Pathname(url) == PercentEncode(Slice(url, 1, QueryIndex(url)))

\* parsed.searchParams.get(name), "" standing for null
SearchParam(url, name) ==
    IF \E k \in 1..(Len(url) - 1) : url[k] = name
    THEN url[(CHOOSE k \in 1..(Len(url) - 1) : url[k] = name) + 1]
    ELSE ""

\* extractAbsolutePath(url)
ExtractAbsolutePath(url) ==
    IF ValidUrl(url)
    THEN LET startLine == SearchParam(url, "?start=")
             endLine   == SearchParam(url, "&end=")
         IN  Pathname(url)
                 \o (IF startLine # ""
                     THEN <<"#", startLine>>
                              \o (IF endLine # "" THEN <<"-", endLine>> ELSE <<>>)
                     ELSE <<>>)
    ELSE url

(***************************************************************************)
(* Parts and segments (lib/types.ts)                                       *)
(***************************************************************************)
\* source.text of a part; has = FALSE stands for an absent source.text
SourceText(start, end, value) ==
    [has |-> TRUE, start |-> start, end |-> end, value |-> value]
NoSourceText == [has |-> FALSE, start |-> 0, end |-> 0, value |-> <<>>]

FilePart(mime, filename, url, path, text) ==
    [type |-> "file", mime |-> mime, filename |-> filename, url |-> url,
     id |-> <<>>, text |-> <<>>, source |-> [path |-> path, text |-> text]]

AgentPart(id, text) ==
    [type |-> "agent", mime |-> <<>>, filename |-> <<>>, url |-> <<>>,
     id |-> id, text |-> <<>>, source |-> [path |-> <<>>, text |-> text]]

TextPart(content, text) ==
    [type |-> "text", mime |-> <<>>, filename |-> <<>>, url |-> <<>>,
     id |-> <<>>, text |-> content, source |-> [path |-> <<>>, text |-> text]]

\* mime.startsWith("image/")
isImageMime(mime) == mime # <<>> /\ mime[1] = "image/"

TextSegment(text) ==
    [type |-> "text", text |-> text, mime |-> <<>>, filename |-> <<>>,
     url |-> <<>>, id |-> <<>>, displayText |-> <<>>]

ImageSegment(part, displayText) ==
    [type |-> "image", text |-> <<>>, mime |-> part.mime, filename |-> part.filename,
     url |-> part.url, id |-> <<>>, displayText |-> displayText]

FileRefSegment(part, displayText) ==
    [type |-> "fileRef", text |-> <<>>, mime |-> <<>>, filename |-> <<>>,
     url |-> part.url, id |-> <<>>, displayText |-> displayText]

AgentSegment(part, displayText) ==
    [type |-> "agent", text |-> <<>>, mime |-> <<>>, filename |-> <<>>,
     url |-> <<>>, id |-> part.id, displayText |-> displayText]

(***************************************************************************)
(* deriveSegments and prepareMessageForSubmit                              *)
(***************************************************************************)
HasSourceText(p) == p.source.text.has

\* Array.prototype.sort((a, b) => a.start - b.start): stable
RECURSIVE InsertByStart(_, _)
InsertByStart(sorted, p) ==
    IF sorted = <<>> THEN <<p>>
    ELSE IF p.source.text.start < Head(sorted).source.text.start
         THEN <<p>> \o sorted
         ELSE <<Head(sorted)>> \o InsertByStart(Tail(sorted), p)

RECURSIVE SortByStart(_)
SortByStart(ps) ==
    IF ps = <<>> THEN <<>>
    ELSE InsertByStart(SortByStart(SubSeq(ps, 1, Len(ps) - 1)), ps[Len(ps)])

\* the segment pushed for one range: none for a part of type "text"
SegmentOf(part, displayText) ==
    IF part.type = "file" /\ isImageMime(part.mime)
    THEN <<ImageSegment(part, displayText)>>
    ELSE IF part.type = "file" THEN <<FileRefSegment(part, displayText)>>
    ELSE IF part.type = "agent" THEN <<AgentSegment(part, displayText)>>
    ELSE <<>>

\* the for loop of deriveSegments from `cursor` on, and the trailing text
RECURSIVE Walk(_, _, _)
Walk(text, ranges, cursor) ==
    IF ranges = <<>>
    THEN IF cursor < Len(text)
         THEN <<TextSegment(Slice(text, cursor, Len(text)))>>
         ELSE <<>>
    ELSE LET part  == Head(ranges)
             start == part.source.text.start
             end   == part.source.text.end
         IN  (IF start > cursor
              THEN <<TextSegment(Slice(text, cursor, start))>>
              ELSE <<>>)
             \o SegmentOf(part, Slice(text, start, end))
             \o Walk(text, Tail(ranges), end)

deriveSegments(text, ps) == Walk(text, SortByStart(SelectSeq(ps, HasSourceText)), 0)

\* the attachment pushed for an image segment
FileUIPart(seg) ==
    [type |-> "file", mediaType |-> seg.mime, filename |-> seg.filename, url |-> seg.url]

\* one step of the reduce
Fold(acc, seg) ==
    CASE seg.type = "text"    -> [acc EXCEPT !.text = @ \o seg.text]
      [] seg.type = "image"   -> [text  |-> acc.text \o seg.displayText,
                                  files |-> Append(acc.files, FileUIPart(seg))]
      [] seg.type = "fileRef" -> [acc EXCEPT !.text = @ \o ExtractAbsolutePath(seg.url)]
      [] seg.type = "agent"   -> [acc EXCEPT !.text = @ \o seg.displayText]
      [] OTHER                -> acc

RECURSIVE Reduce(_, _)
Reduce(acc, segs) ==
    IF segs = <<>> THEN acc ELSE Reduce(Fold(acc, Head(segs)), Tail(segs))

prepareMessageForSubmit(text, ps) ==
    Reduce([text |-> <<>>, files |-> <<>>], deriveSegments(text, ps))

\* a call of prepareMessageForSubmit, with the segments it derived on the way
CallPrepareMessageForSubmit ==
    /\ segments' = <<deriveSegments(input, parts)>>
    /\ prepared' = <<prepareMessageForSubmit(input, parts)>>

(***************************************************************************)
(* the parts the prompt creates                                            *)
(***************************************************************************)
\* file names offered by the file search: one has a space in its name
FileNames == {<<"a">>, <<"m", " ", "f">>}

LineRanges == {NoLineRange, LineRange("1"), LineRangeTo("1", "2")}

\* the `${file}#${startLine}-${endLine}` display name of a candidate
DisplayName(file, lineRange) ==
    IF lineRange.has
    THEN file \o <<"#", lineRange.startLine>>
             \o (IF lineRange.hasEnd THEN <<"-", lineRange.endLine>> ELSE <<>>)
    ELSE file

\* the part of a file candidate (updateAutocompleteOptions)
FileCandidatePart(file, lineRange) ==
    FilePart(<<"text/", "plain">>, DisplayName(file, lineRange),
             BuildFileUrl(file, Cwd, lineRange), file, SourceText(0, 0, <<>>))

\* the part of an agent candidate
AgentCandidatePart(id) == AgentPart(id, SourceText(0, 0, <<>>))

\* `[Image ${n}]`
Digits == <<"1", "2", "3", "4", "5", "6", "7", "8", "9">>
ImageBadge(n) == <<"[Image", " ", Digits[n], "]">>

\* the part pasteImage builds for the n-th image
ImagePart(n, filename, text) ==
    FilePart(<<"image/", "png">>, filename,
             <<"data:", "image/", "png", ";base64,", "AAAA">>, filename, text)

(***************************************************************************)
(* The textarea.  An edit moves the extmarks behind it and removes the     *)
(* extmarks whose whole range is deleted.                                  *)
(***************************************************************************)
AdjustAfterInsertion(exts, at, n) ==
    { IF e.start >= at THEN [e EXCEPT !.start = @ + n, !.end = @ + n]
      ELSE IF e.end > at THEN [e EXCEPT !.end = @ + n]
      ELSE e : e \in exts }

AdjustAfterDeletion(exts, a, n) ==
    { IF e.end <= a THEN e
      ELSE IF e.start >= a + n THEN [e EXCEPT !.start = @ - n, !.end = @ - n]
      ELSE IF e.start < a /\ e.end > a + n THEN [e EXCEPT !.end = @ - n]
      ELSE IF e.start < a THEN [e EXCEPT !.end = a]
      ELSE [e EXCEPT !.start = a, !.end = @ - n]
      : e \in {x \in exts : ~(x.start >= a /\ x.end <= a + n)} }

\* what a handler reads and writes while it runs; events counts the
\* content-change events its edits have raised and that are delivered after it
Store ==
    [plainText |-> plainText, cursorOffset |-> cursorOffset, extmarks |-> extmarks,
     nextExtmarkId |-> nextExtmarkId,
     extmarkToPartIndexRef |-> extmarkToPartIndexRef,
     promptUpdates |-> promptUpdates, stateUpdates |-> stateUpdates,
     optionsUpdates |-> optionsUpdates, showTimers |-> showTimers,
     requests |-> requests, suspendCount |-> suspendCount, events |-> 0]

Commit(S) ==
    /\ plainText' = S.plainText
    /\ cursorOffset' = S.cursorOffset
    /\ extmarks' = S.extmarks
    /\ nextExtmarkId' = S.nextExtmarkId
    /\ extmarkToPartIndexRef' = S.extmarkToPartIndexRef
    /\ promptUpdates' = S.promptUpdates
    /\ stateUpdates' = S.stateUpdates
    /\ optionsUpdates' = S.optionsUpdates
    /\ showTimers' = S.showTimers
    /\ requests' = S.requests
    /\ suspendCount' = S.suspendCount

\* textarea.insertText(text): at the cursor, which ends behind the text
insertText(S, text) ==
    [S EXCEPT !.plainText = Slice(@, 0, S.cursorOffset) \o text
                                \o Slice(@, S.cursorOffset, Len(@)),
              !.cursorOffset = @ + Len(text),
              !.extmarks = AdjustAfterInsertion(@, S.cursorOffset, Len(text)),
              !.events = @ + 1]

\* textarea.deleteRange from offset a to offset b
deleteRange(S, a, b) ==
    IF a >= b THEN S
    ELSE [S EXCEPT !.plainText = Slice(@, 0, a) \o Slice(@, b, Len(@)),
                   !.cursorOffset = IF @ <= a THEN @
                                    ELSE IF @ >= b THEN @ - (b - a) ELSE a,
                   !.extmarks = AdjustAfterDeletion(@, a, b - a),
                   !.events = @ + 1]

\* textarea.extmarks.create({start, end, virtual: true, ...})
extmarksCreate(S, start, end) ==
    [S EXCEPT !.extmarks = @ \cup {[id |-> S.nextExtmarkId, start |-> start,
                                    end |-> end]},
              !.nextExtmarkId = @ + 1]

\* textarea.clear()
textareaClear(S) ==
    [S EXCEPT !.plainText = <<>>, !.cursorOffset = 0, !.extmarks = {},
              !.events = @ + (IF S.plainText = <<>> THEN 0 ELSE 1)]

\* the offsets the cursor can be at: not inside a virtual extmark
CursorStops ==
    {k \in 0..Len(plainText) : \A e \in extmarks : ~(e.start < k /\ k < e.end)}

(***************************************************************************)
(* Candidates                                                              *)
(***************************************************************************)
\* the paths the search returns, in frecency order: a directory, a file and a
\* directory with a space in its name
FileList == <<<<"x", "/">>, <<"m", " ", "f">>, <<"d", " ", "/">>>>

\* const isDir = file.endsWith("/")
IsDir(file) == file # <<>> /\ file[Len(file)] = "/"

FileOption(file) ==
    [display |-> file, value |-> file, hasPart |-> TRUE, isDirectory |-> IsDir(file),
     part |-> FileCandidatePart(file, NoLineRange)]

AgentOption(id) ==
    [display |-> id, value |-> <<>>, hasPart |-> TRUE, isDirectory |-> FALSE,
     part |-> AgentCandidatePart(id)]

\* an option of commandContext.slashes(): no part, an onSelect that runs the command
SlashOption(name) ==
    [display |-> <<"/">> \o name, value |-> <<>>, hasPart |-> FALSE,
     isDirectory |-> FALSE, part |-> AgentCandidatePart(<<>>)]

FileOptions == [k \in 1..Len(FileList) |-> FileOption(FileList[k])]
AgentOptions == <<AgentOption(<<"g">>)>>
\* the names of the registered slash commands
SlashNames == {<<"x">>}
SlashOptions == <<SlashOption(<<"x">>)>>

\* selected.value ?? selected.display
OptionText(o) == IF o.value # <<>> THEN o.value ELSE o.display

\* fuzzysort: the search matches a target that has its characters in order
RECURSIVE FuzzyMatch(_, _)
FuzzyMatch(search, target) ==
    IF search = <<>> THEN TRUE
    ELSE IF target = <<>> THEN FALSE
    ELSE IF Head(search) = Head(target)
         THEN FuzzyMatch(Tail(search), Tail(target))
         ELSE FuzzyMatch(search, Tail(target))

\* the filteredOptions memo (the candidates keep the order of the provider)
FilteredOptions(vis, flt, options) ==
    IF vis = "false" THEN <<>>
    ELSE IF flt # <<>>
         THEN SelectSeq(options, LAMBDA o : FuzzyMatch(flt, Trim(OptionText(o))))
         ELSE options

filteredOptions == FilteredOptions(visible, filter, autocompleteOptions)

(***************************************************************************)
(* updateAutocompleteOptions: the file search is awaited, the other two    *)
(* providers answer within the call                                        *)
(***************************************************************************)
updateAutocompleteOptions(S, mode) ==
    CASE mode = "#" -> [S EXCEPT !.requests = @ \cup {"#"}]
      [] mode = "@" -> [S EXCEPT !.optionsUpdates = <<AgentOptions>>]
      [] mode = "/" -> [S EXCEPT !.optionsUpdates = <<SlashOptions>>]

(***************************************************************************)
(* The autocomplete component.  Its callbacks close over the state, the    *)
(* value prop and the candidates of the last render.                       *)
(***************************************************************************)
\* command.keybinds(enabled): setSuspendCount(count => count + (enabled ? -1 : 1))
keybinds(S, enabled) ==
    [S EXCEPT !.suspendCount = @ + (IF enabled THEN -1 ELSE 1)]

show(S, mode, index) ==
    [keybinds(S, FALSE) EXCEPT
        !.stateUpdates = Append(@, [op |-> "show", visible |-> mode,
                                    triggerIndex |-> index]),
        !.showTimers = @ \cup {mode}]

hide(S) ==
    LET S1 == IF visible = "/" /\ input # <<>> /\ input[1] = "/"
                 /\ ~Includes(input, " ")
              THEN [deleteRange(S, 0, S.cursorOffset) EXCEPT
                       !.promptUpdates = Append(@, [op |-> "plainText"])]
              ELSE S
    IN  [keybinds(S1, TRUE) EXCEPT !.stateUpdates = Append(@, [op |-> "hide"])]

move(S, direction) ==
    IF visible = "false" \/ Len(filteredOptions) = 0 THEN S
    ELSE [S EXCEPT !.stateUpdates =
              Append(@, [op |-> "move", direction |-> direction,
                         length |-> Len(filteredOptions)])]

\* String.prototype.lastIndexOf(c): the last offset of c in s, or -1
LastIndexOf(s, c) ==
    IF Includes(s, c)
    THEN (CHOOSE k \in 1..Len(s) : s[k] = c /\ \A j \in (k + 1)..Len(s) : s[j] # c) - 1
    ELSE -1

\* SLASH_COMMAND_COMPLETE_REGEX = /^\S+\s+\S+\s*$/
SlashCommandComplete(s) ==
    LET t == TrimEnd(s)
    IN  /\ t # <<>>
        /\ t[1] \notin Whitespace
        /\ Cardinality({k \in 2..Len(t) :
                            t[k - 1] \in Whitespace /\ t[k] \notin Whitespace}) = 1

\* lastIndexOf(c) is a trigger: at the start or behind whitespace, and no
\* space between it and the cursor
TriggerAt(value, offset, c) ==
    LET text == Slice(value, 0, offset)
        idx  == LastIndexOf(text, c)
    IN  /\ idx # -1
        /\ (idx = 0 \/ CharAt(value, idx - 1) \in Whitespace)
        /\ ~Includes(Slice(text, idx, Len(text)), " ")

onInput(S, value, offset) ==
    IF visible # "false"
    THEN IF \/ offset <= triggerIndex
            \/ Includes(Slice(value, triggerIndex, offset), " ")
            \/ (visible = "/" /\ SlashCommandComplete(value))
         THEN hide(S)
         ELSE S
    ELSE IF offset = 0 THEN S
    ELSE IF value[1] = "/" /\ ~Includes(Slice(value, 0, offset), " ")
         THEN show(S, "/", 0)
    ELSE IF TriggerAt(value, offset, "#")
         THEN show(S, "#", LastIndexOf(Slice(value, 0, offset), "#"))
    ELSE IF TriggerAt(value, offset, "@")
         THEN show(S, "@", LastIndexOf(Slice(value, 0, offset), "@"))
    ELSE S

\* value.lastIndexOf(c, offset) !== -1
OccursUpTo(value, offset, c) == Includes(Slice(value, 0, offset + 1), c)

\* handleContentChange: one content-change event of the textarea
handleContentChange(S) ==
    LET value  == S.plainText
        offset == S.cursorOffset
        S1 == [S EXCEPT !.promptUpdates = Append(@, [op |-> "input", value |-> value])]
        S2 == onInput(S1, value, offset)
    IN  IF visible = "#"
        THEN IF OccursUpTo(value, offset, "#")
             THEN updateAutocompleteOptions(S2, "#") ELSE S2
        ELSE IF visible = "@"
        THEN IF OccursUpTo(value, offset, "@")
             THEN updateAutocompleteOptions(S2, "@") ELSE S2
        ELSE IF visible = "/"
        THEN updateAutocompleteOptions(S2, "/")
        ELSE S2

\* the content-change events of a handler's edits, delivered when it has returned
RECURSIVE Deliver(_)
Deliver(S) ==
    IF S.events = 0 THEN S
    ELSE Deliver(handleContentChange([S EXCEPT !.events = @ - 1]))

\* const needsSpace = charAfterCursor !== " "
NeedsSpace(charAfterCursor) == charAfterCursor # " "

\* const extmarkEnd = extmarkStart + virtualText.length
ExtmarkEnd(start, virtualText) == start + Len(virtualText)

\* insertPart(text, part); swap says how the textarea takes a range whose
\* end lies before its start, eager whether React runs the setPrompt updater
\* within the call (it may when no update of the prompt is pending) or in the
\* next render
insertPart(S, text, part, swap, eager) ==
    LET prefix == IF part.type = "file" THEN "#" ELSE "@"
        currentCursorOffset == S.cursorOffset
        append == <<prefix>> \o text
                      \o (IF NeedsSpace(CharAt(input, currentCursorOffset))
                          THEN <<" ">> ELSE <<>>)
        S1 == IF triggerIndex <= currentCursorOffset
              THEN deleteRange(S, triggerIndex, currentCursorOffset)
              ELSE IF swap THEN deleteRange(S, currentCursorOffset, triggerIndex)
              ELSE S
        S2 == insertText(S1, append)
        virtualText  == <<prefix>> \o text
        extmarkStart == triggerIndex
        extmarkEnd   == ExtmarkEnd(extmarkStart, virtualText)
        S3 == extmarksCreate(S2, extmarkStart, extmarkEnd)
    IN  [S3 EXCEPT !.promptUpdates =
            Append(@, [op |-> "insertPart",
                       part |-> [part EXCEPT !.source.text =
                                    SourceText(extmarkStart, extmarkEnd, virtualText)],
                       extmarkId |-> S2.nextExtmarkId,
                       eager |-> eager, value |-> S2.plainText]),
                   !.extmarkToPartIndexRef =
                       IF eager THEN @ \cup {<<S2.nextExtmarkId, Len(parts)>>} ELSE @]

\* select()
select(S, swap, eager) ==
    IF selectedIndex >= Len(filteredOptions) THEN S
    ELSE LET selected == filteredOptions[selectedIndex + 1]
         IN  IF selected.hasPart
             THEN insertPart(hide(S), TrimEnd(OptionText(selected)), selected.part, swap,
                             eager)
             ELSE hide(S)

\* expandDirectory(): tab while the dropdown is open
expandDirectory(S, swap, eager) ==
    IF selectedIndex >= Len(filteredOptions) THEN S
    ELSE LET selected == filteredOptions[selectedIndex + 1]
             currentCursorOffset == S.cursorOffset
             displayText == TrimEnd(OptionText(selected))
             path == IF displayText # <<>> /\ displayText[1] = "#"
                     THEN Tail(displayText) ELSE displayText
             S1 == IF triggerIndex <= currentCursorOffset
                   THEN deleteRange(S, triggerIndex, currentCursorOffset)
                   ELSE IF swap THEN deleteRange(S, currentCursorOffset, triggerIndex)
                   ELSE S
             S2 == insertText(S1, <<"#">> \o path)
         IN  IF ~selected.isDirectory THEN select(S, swap, eager)
             ELSE [S2 EXCEPT !.promptUpdates = Append(@, [op |-> "plainText"]),
                             !.stateUpdates = Append(@, [op |-> "reset"])]

(***************************************************************************)
(* The prompt component                                                    *)
(***************************************************************************)
\* createExtmark(start, end, styleId, partIndex)
createExtmark(S, start, end, partIndex) ==
    [extmarksCreate(S, start, end) EXCEPT
        !.extmarkToPartIndexRef = @ \cup {<<S.nextExtmarkId, partIndex>>}]

\* clearExtmarks()
clearExtmarks(S) == [S EXCEPT !.extmarks = {}, !.extmarkToPartIndexRef = {}]

isImagePart(p) == p.type = "file" /\ isImageMime(p.mime)

\* pasteImage(file)
pasteImage(S, filename) ==
    LET currentOffset  == S.cursorOffset
        existingImages == Len(SelectSeq(parts, isImagePart))
        virtualText    == ImageBadge(existingImages + 1)
        extmarkStart   == currentOffset
        extmarkEnd     == extmarkStart + Len(virtualText)
        part == ImagePart(existingImages + 1, filename,
                          SourceText(extmarkStart, extmarkEnd, virtualText))
        textToInsert == virtualText \o <<" ">>
        S1 == insertText(S, textToInsert)
        S2 == createExtmark(S1, extmarkStart, extmarkEnd, Len(parts))
    IN  [S2 EXCEPT !.promptUpdates =
                       Append(@, [op |-> "paste", offset |-> currentOffset,
                                  text |-> textToInsert, part |-> part]),
                   !.cursorOffset = extmarkEnd + 1]

\* `[Pasted ~${lineCount} lines]`
PastedBadge == <<"[Pasted", " ", "~3", " ", "lines]">>

\* pasteTextWithBadge(text, virtualText)
pasteTextWithBadge(S, text, virtualText) ==
    LET currentOffset == S.cursorOffset
        extmarkStart  == currentOffset
        extmarkEnd    == extmarkStart + Len(virtualText)
        S1 == insertText(S, virtualText \o <<" ">>)
        textPart == TextPart(text, SourceText(extmarkStart, extmarkEnd, virtualText))
        S2 == createExtmark(S1, extmarkStart, extmarkEnd, Len(parts))
    IN  [S2 EXCEPT !.promptUpdates =
                       Append(@, [op |-> "paste", offset |-> currentOffset,
                                  text |-> virtualText \o <<" ">>, part |-> textPart]),
                   !.cursorOffset = extmarkEnd + 1]

\* setPromptInfo({ input: "", parts: [] }); clearExtmarks(); textarea.clear()
clearPrompt(S) ==
    textareaClear(clearExtmarks(
        [S EXCEPT !.promptUpdates = Append(@, [op |-> "set", input |-> <<>>,
                                               parts |-> <<>>])]))

(***************************************************************************)
(* Rendering: React applies the pending updates in the order of the calls  *)
(***************************************************************************)
\* one setPromptInfo updater; acc carries the extmark-to-part map, which the
\* updater of insertPart writes through setExtmark
ApplyPromptUpdate(acc, u) ==
    CASE u.op = "input" -> [acc EXCEPT !.input = u.value]
      [] u.op = "paste" ->
            [acc EXCEPT !.input = Slice(@, 0, u.offset) \o u.text
                                      \o Slice(@, u.offset, Len(@)),
                        !.parts = Append(@, u.part)]
      [] u.op = "insertPart" ->
            IF u.eager
            THEN [acc EXCEPT !.parts = Append(@, u.part), !.input = u.value]
            ELSE [acc EXCEPT !.parts = Append(@, u.part),
                             !.input = plainText,
                             !.map = @ \cup {<<u.extmarkId, Len(acc.parts)>>}]
      [] u.op = "plainText" -> [acc EXCEPT !.input = plainText]
      [] u.op = "set" -> [acc EXCEPT !.input = u.input, !.parts = u.parts]

RECURSIVE ApplyPromptUpdates(_, _)
ApplyPromptUpdates(acc, us) ==
    IF us = <<>> THEN acc
    ELSE ApplyPromptUpdates(ApplyPromptUpdate(acc, Head(us)), Tail(us))

\* one setState call of the autocomplete
ApplyStateUpdate(st, u) ==
    CASE u.op = "show" -> [visible |-> u.visible, triggerIndex |-> u.triggerIndex,
                           selectedIndex |-> 0]
      [] u.op = "hide" -> [st EXCEPT !.visible = "false"]
      [] u.op = "reset" -> [st EXCEPT !.selectedIndex = 0]
      [] u.op = "move" ->
            LET next == st.selectedIndex + u.direction
            IN  [st EXCEPT !.selectedIndex =
                    IF next < 0 THEN u.length - 1
                    ELSE IF next >= u.length THEN 0 ELSE next]

RECURSIVE ApplyStateUpdates(_, _)
ApplyStateUpdates(st, us) ==
    IF us = <<>> THEN st
    ELSE ApplyStateUpdates(ApplyStateUpdate(st, Head(us)), Tail(us))

\* the prompt and the autocomplete state the next render will see
NextPrompt ==
    ApplyPromptUpdates([input |-> input, parts |-> parts,
                        map |-> extmarkToPartIndexRef], promptUpdates)

NextState ==
    ApplyStateUpdates([visible |-> visible, triggerIndex |-> triggerIndex,
                       selectedIndex |-> selectedIndex], stateUpdates)

\* the filter memo: value.slice(state.triggerIndex + 1, cursorOffset)
Filter(vis, index, value) ==
    IF vis = "false" THEN <<>> ELSE Slice(value, index + 1, cursorOffset)

RenderPrompt ==
    /\ promptUpdates # <<>> \/ stateUpdates # <<>> \/ optionsUpdates # <<>>
    /\ input' = NextPrompt.input
    /\ parts' = NextPrompt.parts
    /\ extmarkToPartIndexRef' = NextPrompt.map
    /\ visible' = NextState.visible
    /\ triggerIndex' = NextState.triggerIndex
    /\ selectedIndex' = NextState.selectedIndex
    /\ filter' = IF <<visible', triggerIndex', input'>> = <<visible, triggerIndex, input>>
                 THEN filter
                 ELSE Filter(visible', triggerIndex', input')
    /\ autocompleteOptions' = IF optionsUpdates # <<>>
                              THEN optionsUpdates[Len(optionsUpdates)]
                              ELSE autocompleteOptions
    /\ promptUpdates' = <<>>
    /\ stateUpdates' = <<>>
    /\ optionsUpdates' = <<>>
    /\ UNCHANGED <<tvars, showTimers, requests, suspendCount, segments, prepared,
                   submitted, edits, lastEvent, qvars, svars>>

(***************************************************************************)
(* User events.  A handler runs to completion; the content-change events   *)
(* of its edits are delivered before anything else runs.                   *)
(***************************************************************************)
\* the characters the keyboard types
Keys == {"x", " ", "\n", "#", "@", "/"}

Event(name, S) ==
    /\ edits < MaxEdits
    /\ edits' = edits + 1
    /\ lastEvent' = name
    /\ Commit(Deliver(S))
    /\ UNCHANGED <<rvars, qvars, svars>>

\* a printable key, or shift+return for "\n": the textarea inserts it
KeyChar ==
    \E c \in Keys :
        /\ Event("char", insertText(Store, <<c>>))
        /\ UNCHANGED <<segments, prepared, submitted>>

\* backspace: the character before the cursor, or the whole virtual extmark
\* that ends at the cursor
KeyBackspace ==
    /\ cursorOffset > 0
    /\ LET ends == {e \in extmarks : e.end = cursorOffset /\ e.start < e.end}
           from == IF ends # {}
                   THEN (CHOOSE e \in ends : \A x \in ends : e.start <= x.start).start
                   ELSE cursorOffset - 1
       IN  Event("backspace", deleteRange(Store, from, cursorOffset))
    /\ UNCHANGED <<segments, prepared, submitted>>

\* an arrow key, home/end or a click moves the cursor; nothing in the prompt
\* listens to it
CursorMove ==
    \E k \in CursorStops :
        /\ k # cursorOffset
        /\ Event("cursor", [Store EXCEPT !.cursorOffset = k])
        /\ UNCHANGED <<segments, prepared, submitted>>

\* ctrl+v or a bracketed paste with an image
PasteImage ==
    /\ Event("pasteImage", pasteImage(Store, <<"clipboard">>))
    /\ UNCHANGED <<segments, prepared, submitted>>

\* a bracketed paste of three or more lines
PasteText ==
    /\ Event("pasteText", pasteTextWithBadge(Store, <<"p", "\n", "q", "\n", "r">>,
                                             PastedBadge))
    /\ UNCHANGED <<segments, prepared, submitted>>

\* up or down while the dropdown is open
KeyUpDown ==
    /\ visible # "false"
    /\ \E direction \in {-1, 1} : Event("move", move(Store, direction))
    /\ UNCHANGED <<segments, prepared, submitted>>

\* escape while the dropdown is open
KeyEscape ==
    /\ visible # "false"
    /\ Event("escape", hide(Store))
    /\ UNCHANGED <<segments, prepared, submitted>>

\* return while the dropdown is open
KeyReturnSelect ==
    /\ visible # "false"
    /\ \E swap \in (IF cursorOffset < triggerIndex THEN BOOLEAN ELSE {TRUE}),
          eager \in (IF promptUpdates = <<>> /\ optionsUpdates = <<>>
                     THEN BOOLEAN ELSE {FALSE}) :
           Event("select", select(Store, swap, eager))
    /\ UNCHANGED <<segments, prepared, submitted>>

\* the highlighted candidate is a directory
DirectoryHighlighted ==
    /\ selectedIndex < Len(filteredOptions)
    /\ filteredOptions[selectedIndex + 1].isDirectory

\* tab while the dropdown is open: a selection unless a directory is highlighted
KeyTab ==
    /\ visible # "false"
    /\ \E swap \in (IF cursorOffset < triggerIndex THEN BOOLEAN ELSE {TRUE}),
          eager \in (IF promptUpdates = <<>> /\ optionsUpdates = <<>>
                     THEN BOOLEAN ELSE {FALSE}) :
           Event(IF DirectoryHighlighted THEN "tab" ELSE "select",
                 expandDirectory(Store, swap, eager))
    /\ UNCHANGED <<segments, prepared, submitted>>

\* ctrl+u, or ctrl+c with content
KeyClear ==
    /\ Event("clear", clearPrompt(Store))
    /\ UNCHANGED <<segments, prepared, submitted>>

\* trimmed.slice(1).split(/\s+/)[0]
RECURSIVE FirstToken(_)
FirstToken(s) ==
    IF s = <<>> \/ Head(s) \in Whitespace THEN <<>>
    ELSE <<Head(s)>> \o FirstToken(Tail(s))

\* handleSubmit: return while the dropdown is closed, in normal mode (the
\* keyboard of the model cannot type the words exit, quit and :q)
handleSubmit ==
    /\ visible = "false"
    /\ IF Trim(input) = <<>>
       THEN /\ Event("submit", Store)
            /\ UNCHANGED <<segments, prepared, submitted>>
       ELSE IF Trim(input)[1] = "/" /\ FirstToken(Tail(Trim(input))) \in SlashNames
       THEN \* commandContext.execute(cmd.id), then the prompt is cleared
            /\ Event("command", clearPrompt(Store))
            /\ UNCHANGED <<segments, prepared, submitted>>
       ELSE /\ CallPrepareMessageForSubmit
            /\ submitted' = Append(submitted,
                                   [text  |-> Trim(prepareMessageForSubmit(input, parts).text),
                                    files |-> prepareMessageForSubmit(input, parts).files])
            /\ Event("submit", clearPrompt(Store))

(***************************************************************************)
(* Asynchronous steps                                                      *)
(***************************************************************************)
\* setTimeout(onShow, 0) of show: onTrigger(mode, filter)
ShowTimer ==
    \E mode \in showTimers :
        /\ Commit(updateAutocompleteOptions(
                      [Store EXCEPT !.showTimers = @ \ {mode}], mode))
        /\ UNCHANGED <<rvars, segments, prepared, submitted, edits, lastEvent, qvars,
                       svars>>

\* searchFiles resolves: setAutocompleteOptions(options)
SearchResolved ==
    /\ "#" \in requests
    /\ requests' = requests \ {"#"}
    /\ optionsUpdates' = <<FileOptions>>
    /\ UNCHANGED <<tvars, rvars, promptUpdates, stateUpdates, extmarkToPartIndexRef,
                   showTimers, suspendCount, segments, prepared, submitted, edits,
                   lastEvent, qvars, svars>>

PNext ==
    \/ KeyChar
    \/ KeyBackspace
    \/ CursorMove
    \/ PasteImage
    \/ PasteText
    \/ KeyUpDown
    \/ KeyEscape
    \/ KeyReturnSelect
    \/ KeyTab
    \/ KeyClear
    \/ handleSubmit
    \/ RenderPrompt
    \/ ShowTimer
    \/ SearchResolved

(***************************************************************************)
(* prepareMessageForSubmit applied to bounded prompts                      *)
(***************************************************************************)
\* the characters of the bounded buffers
SubmitChars == {"x", " "}

Texts(n) == UNION {[1..k -> SubmitChars] : k \in 0..n}

\* a part with the given range over the buffer, of each kind the prompt creates
PartsOver(text, start, end) ==
    LET src == SourceText(start, end, Slice(text, start, end))
    IN  {[FileCandidatePart(f, lr) EXCEPT !.source.text = src] :
             f \in FileNames, lr \in LineRanges}
        \cup {ImagePart(1, <<"clipboard">>, src),
              AgentPart(<<"g">>, src),
              TextPart(<<"p", "\n", "q">>, src),
              FilePart(<<"text/", "plain">>, <<"r">>, <<"r">>, <<"r">>, src),
              AgentPart(<<"g">>, NoSourceText)}

PartsOf(text) ==
    UNION {PartsOver(text, start, end) :
               start \in 0..Len(text), end \in 0..Len(text)}

PartLists(text) == UNION {[1..k -> PartsOf(text)] : k \in 0..MaxParts}

\* the prompt after mount, apart from promptInfo
EditorInit ==
    /\ plainText = <<>>
    /\ cursorOffset = 0
    /\ extmarks = {}
    /\ nextExtmarkId = 1
    /\ extmarkToPartIndexRef = {}
    /\ promptUpdates = <<>>
    /\ visible = "false"
    /\ triggerIndex = 0
    /\ selectedIndex = 0
    /\ stateUpdates = <<>>
    /\ filter = <<>>
    /\ autocompleteOptions = <<>>
    /\ optionsUpdates = <<>>
    /\ showTimers = {}
    /\ requests = {}
    /\ suspendCount = 0
    /\ segments = <<>>
    /\ prepared = <<>>
    /\ submitted = <<>>
    /\ edits = 0
    /\ lastEvent = "mount"

PInit ==
    /\ EditorInit
    /\ input = <<>>
    /\ parts = <<>>

\* the call of prepareMessageForSubmit in handleSubmit
PrepareSubmit ==
    /\ prepared = <<>>
    /\ CallPrepareMessageForSubmit
    /\ UNCHANGED <<qvars, svars, tvars, rvars, uvars, avars, submitted, edits,
                   lastEvent>>

(***************************************************************************)
(* Part III: the persistent stores of the prompt                           *)
(***************************************************************************)
\* Array.prototype.slice(-n)
LastN(s, n) == IF Len(s) <= n THEN s ELSE SubSeq(s, Len(s) - n + 1, Len(s))

\* Array.prototype.slice(0, n)
FirstN(s, n) == IF Len(s) <= n THEN s ELSE SubSeq(s, 1, n)

\* Array.prototype.at(index) for a negative index: wrapped in a sequence,
\* empty for undefined
At(items, index) ==
    IF Len(items) + index >= 0 /\ index < 0
    THEN <<items[Len(items) + index + 1]>> ELSE <<>>

Abs(n) == IF n < 0 THEN -n ELSE n

\* writeFile(file, content): a failed write leaves the file as it was
WriteFile(file, content, ok) == IF ok THEN content ELSE file

\* appendFile(file, line)
AppendFile(file, line, ok) == IF ok THEN Append(file, line) ELSE file

\* the promise a file operation returns
IoResult(ok) == IF ok THEN "fulfilled" ELSE "rejected"

\* a rejection that reaches the caller
Propagate(result) == result

\* .catch(() => { /* ignore */ })
Swallow(result) == "fulfilled"

\* what a call leaves in call
Call(op, arg, returned, outcome) ==
    [op |-> op, arg |-> arg, returned |-> returned, outcome |-> outcome]

StoreCall(name) ==
    /\ store = name
    /\ storeOps < MaxStoreOps
    /\ storeOps' = storeOps + 1

\* load() was called and has not assigned what it read
InFlight == loading.phase \in {"called", "read"}

(***************************************************************************)
(* createHistory                                                           *)
(***************************************************************************)
HistoryEntry(in) == [input |-> in, parts |-> <<>>]

\* { input: "", parts: [] }
EmptyEntry == HistoryEntry(<<>>)

\* the inputs handed to append and to move
HistoryInputs == {<<>>, <<" ">>, <<"a">>, <<"b">>}

loadHistory(file) == LastN(file, MAX_HISTORY_ENTRIES)

saveHistory(file, items, ok) ==
    [file |-> WriteFile(file, items, ok), outcome |-> Swallow(IoResult(ok))]

\* a bug that would leave the appended entry out of the file
appendHistoryEntryLost(file, entry, ok) ==
    [file |-> file, outcome |-> Swallow(IoResult(ok))]

appendHistoryEntry(file, entry, ok) ==
    [file |-> AppendFile(file, entry, ok), outcome |-> Swallow(IoResult(ok))]

\* history.load()
HistoryLoad ==
    /\ StoreCall("history")
    /\ ~hLoaded /\ ~InFlight
    /\ hItems' = loadHistory(hFile)
    /\ hLoaded' = TRUE
    /\ call' = Call("load", <<>>, <<>>, "fulfilled")
    /\ UNCHANGED <<hIndex, hFile, store, loading, stvars, fvars, qvars, evars>>

\* the items append leaves: the entry pushed, then trimmed to the newest
AppendItems(items, entry) == LastN(Append(items, entry), MAX_HISTORY_ENTRIES)

\* a history that drops an input it holds anywhere
AppendSkipsAcrossGaps(items, entry) ==
    \/ Trim(entry.input) = <<>>
    \/ \E k \in 1..Len(items) : items[k].input = entry.input

\* append returns before it pushes
AppendSkips(items, entry) ==
    \/ Trim(entry.input) = <<>>
    \/ items # <<>> /\ items[Len(items)].input = entry.input

\* history.append(entry); ok says whether the write succeeds
HistoryAppend ==
    \E in \in HistoryInputs, ok \in BOOLEAN :
        LET entry   == HistoryEntry(in)
            trimmed == Len(hItems) + 1 > MAX_HISTORY_ENTRIES
            saved   == IF trimmed
                       THEN saveHistory(hFile, AppendItems(hItems, entry), ok)
                       ELSE appendHistoryEntry(hFile, entry, ok)
        IN  /\ StoreCall("history")
            /\ hLoaded \/ InFlight
            /\ IF AppendSkips(hItems, entry)
               THEN /\ call' = Call("append", [entry |-> entry, ok |-> TRUE], <<>>,
                                    "fulfilled")
                    /\ UNCHANGED <<hItems, hIndex, hFile>>
               ELSE /\ hItems' = AppendItems(hItems, entry)
                    /\ hIndex' = 0
                    /\ hFile' = saved.file
                    /\ call' = Call("append", [entry |-> entry, ok |-> ok], <<>>,
                                    saved.outcome)
            /\ UNCHANGED <<hLoaded, store, loading, stvars, fvars, qvars, evars>>

\* move returns undefined because the input was edited
MoveGuarded(items, index, currentInput) ==
    LET currentEntry == IF index < 0 THEN At(items, index) ELSE <<>>
    IN  /\ currentEntry # <<>>
        /\ currentEntry[1].input # currentInput
        /\ Len(currentInput) > 0

\* a move without the boundary checks
MoveUnbounded(items, index, direction, currentInput) ==
    IF items = <<>> \/ MoveGuarded(items, index, currentInput)
    THEN [index |-> index, returned |-> <<>>]
    ELSE [index |-> index + direction, returned |-> At(items, index + direction)]

\* the index and the return value of move(direction, currentInput)
Move(items, index, direction, currentInput) ==
    LET nextIndex == index + direction
        stay      == [index |-> index, returned |-> <<>>]
    IN  IF items = <<>> THEN stay
        ELSE IF MoveGuarded(items, index, currentInput) THEN stay
        ELSE IF Abs(nextIndex) > Len(items) THEN stay
        ELSE IF nextIndex > 0 THEN stay
        ELSE [index |-> nextIndex,
              returned |-> IF nextIndex = 0 THEN <<EmptyEntry>>
                           ELSE At(items, nextIndex)]

\* history.move(direction, currentInput)
HistoryMove ==
    \E direction \in {-1, 1}, currentInput \in HistoryInputs :
        /\ StoreCall("history")
        /\ hLoaded
        /\ hIndex' = Move(hItems, hIndex, direction, currentInput).index
        /\ call' = Call("move", [direction |-> direction, currentInput |-> currentInput],
                        Move(hItems, hIndex, direction, currentInput).returned,
                        "fulfilled")
        /\ UNCHANGED <<hItems, hLoaded, hFile, store, loading, stvars, fvars, qvars, evars>>

(***************************************************************************)
(* createStash                                                             *)
(***************************************************************************)
loadStash(file) == LastN(file, MAX_STASH_ENTRIES)

saveStash(file, entries, ok) ==
    [file |-> WriteFile(file, entries, ok), outcome |-> Swallow(IoResult(ok))]

appendStashEntry(file, entry, ok) ==
    [file |-> AppendFile(file, entry, ok), outcome |-> Swallow(IoResult(ok))]

\* stash.load()
StashLoad ==
    /\ StoreCall("stash")
    /\ ~sLoaded /\ ~InFlight
    /\ sEntries' = loadStash(sFile)
    /\ sLoaded' = TRUE
    /\ call' = Call("load", <<>>, <<>>, "fulfilled")
    /\ UNCHANGED <<sFile, store, loading, hvars, fvars, qvars, evars>>

\* the entries push leaves
PushEntries(entries, entry) == LastN(Append(entries, entry), MAX_STASH_ENTRIES)

\* stash.push(entry)
StashPush ==
    \E in \in HistoryInputs, ok \in BOOLEAN :
        LET entry   == HistoryEntry(in)
            trimmed == Len(sEntries) + 1 > MAX_STASH_ENTRIES
            saved   == IF trimmed
                       THEN saveStash(sFile, PushEntries(sEntries, entry), ok)
                       ELSE appendStashEntry(sFile, entry, ok)
        IN  /\ StoreCall("stash")
            /\ sLoaded \/ InFlight
            /\ IF Trim(in) = <<>>
               THEN /\ call' = Call("push", [entry |-> entry, ok |-> TRUE], <<>>,
                                    "fulfilled")
                    /\ UNCHANGED <<sEntries, sFile>>
               ELSE /\ sEntries' = PushEntries(sEntries, entry)
                    /\ sFile' = saved.file
                    /\ call' = Call("push", [entry |-> entry, ok |-> ok], <<>>,
                                    saved.outcome)
            /\ UNCHANGED <<sLoaded, store, loading, hvars, fvars, qvars, evars>>

\* Array.prototype.splice(index, 1), index counted from 0
Splice(entries, index) ==
    SubSeq(entries, 1, index) \o SubSeq(entries, index + 2, Len(entries))

\* stash.pop()
StashPop ==
    \E ok \in BOOLEAN :
        LET rest  == SubSeq(sEntries, 1, Len(sEntries) - 1)
            saved == saveStash(sFile, rest, ok)
        IN  /\ StoreCall("stash")
            /\ sLoaded
            /\ IF sEntries = <<>>
               THEN /\ call' = Call("pop", [ok |-> TRUE], <<>>, "fulfilled")
                    /\ UNCHANGED <<sEntries, sFile>>
               ELSE /\ sEntries' = rest
                    /\ sFile' = saved.file
                    /\ call' = Call("pop", [ok |-> ok], <<sEntries[Len(sEntries)]>>,
                                    saved.outcome)
            /\ UNCHANGED <<sLoaded, store, loading, hvars, fvars, qvars, evars>>

\* stash.remove(index)
StashRemove ==
    \E index \in -1..MAX_STASH_ENTRIES, ok \in BOOLEAN :
        LET rest  == Splice(sEntries, index)
            saved == saveStash(sFile, rest, ok)
        IN  /\ StoreCall("stash")
            /\ sLoaded
            /\ IF index < 0 \/ index >= Len(sEntries)
               THEN /\ call' = Call("remove", [index |-> index, ok |-> TRUE], <<>>,
                                    "fulfilled")
                    /\ UNCHANGED <<sEntries, sFile>>
               ELSE /\ sEntries' = rest
                    /\ sFile' = saved.file
                    /\ call' = Call("remove", [index |-> index, ok |-> ok], <<>>,
                                    saved.outcome)
            /\ UNCHANGED <<sLoaded, store, loading, hvars, fvars, qvars, evars>>

\* stash.clear()
StashClear ==
    \E ok \in BOOLEAN :
        /\ StoreCall("stash")
        /\ sLoaded
        /\ sEntries' = <<>>
        /\ sFile' = saveStash(sFile, <<>>, ok).file
        /\ call' = Call("clear", [ok |-> ok], <<>>, saveStash(sFile, <<>>, ok).outcome)
        /\ UNCHANGED <<sLoaded, store, loading, hvars, fvars, qvars, evars>>

(***************************************************************************)
(* createFrecencyTracker.  Date.now() grows from one call to the next.     *)
(***************************************************************************)
FrecencyEntry(path, frequency, lastOpen) ==
    [path |-> path, frequency |-> frequency, lastOpen |-> lastOpen]

\* the paths handed to updateFrecency
FrecencyPaths == FileNames \cup {<<"b">>}

\* resolve(process.cwd(), filePath)
Resolve(cwd, filePath) ==
    IF filePath # <<>> /\ filePath[1] = "/" THEN filePath
    ELSE cwd \o <<"/">> \o filePath

\* Map.prototype.get, wrapped in a sequence
MapGet(data, path) == SelectSeq(data, LAMBDA e : e.path = path)

\* Map.prototype.set: a known key keeps its place, a new one goes last
MapSet(data, entry) ==
    IF MapGet(data, entry.path) # <<>>
    THEN [k \in 1..Len(data) |-> IF data[k].path = entry.path THEN entry ELSE data[k]]
    ELSE Append(data, entry)

\* sort((a, b) => b.lastOpen - a.lastOpen): stable, most recent first
InsertByLastOpen(sorted, e) ==
    LET k == Cardinality({i \in 1..Len(sorted) : sorted[i].lastOpen >= e.lastOpen})
    IN  SubSeq(sorted, 1, k) \o <<e>> \o SubSeq(sorted, k + 1, Len(sorted))

RECURSIVE SortByLastOpen(_)
SortByLastOpen(s) ==
    IF s = <<>> THEN <<>>
    ELSE InsertByLastOpen(SortByLastOpen(SubSeq(s, 1, Len(s) - 1)), s[Len(s)])

\* the latest entry of each path
RECURSIVE Latest(_, _)
Latest(acc, lines) ==
    IF lines = <<>> THEN acc ELSE Latest(MapSet(acc, Head(lines)), Tail(lines))

loadFrecency(file) == FirstN(SortByLastOpen(Latest(<<>>, file)), MAX_FRECENCY_ENTRIES)

saveFrecency(file, data, ok) ==
    [file |-> WriteFile(file, data, ok), outcome |-> Swallow(IoResult(ok))]

appendFrecencyEntry(file, entry, ok) ==
    [file |-> AppendFile(file, entry, ok), outcome |-> Swallow(IoResult(ok))]

\* frecency.load()
FrecencyLoad ==
    /\ StoreCall("frecency")
    /\ ~fLoaded /\ ~InFlight
    /\ fData' = loadFrecency(fFile)
    /\ fLoaded' = TRUE
    /\ call' = Call("load", <<>>, <<>>, "fulfilled")
    /\ UNCHANGED <<fFile, now, store, loading, hvars, stvars, qvars, evars>>

\* a compaction that keeps the paths in the order of the map
UpdateDataUnsorted(data, absolutePath, time) ==
    LET existing == MapGet(data, absolutePath)
        newEntry == FrecencyEntry(absolutePath,
                                  (IF existing # <<>> THEN existing[1].frequency ELSE 0) + 1,
                                  time)
    IN  FirstN(MapSet(data, newEntry), MAX_FRECENCY_ENTRIES)

\* the data updateFrecency leaves when Date.now() returns time
UpdateData(data, absolutePath, time) ==
    LET existing == MapGet(data, absolutePath)
        newEntry == FrecencyEntry(absolutePath,
                                  (IF existing # <<>> THEN existing[1].frequency ELSE 0) + 1,
                                  time)
        set      == MapSet(data, newEntry)
    IN  IF Len(set) > MAX_FRECENCY_ENTRIES
        THEN FirstN(SortByLastOpen(set), MAX_FRECENCY_ENTRIES)
        ELSE set

\* frecency.updateFrecency(filePath)
updateFrecency ==
    \E filePath \in FrecencyPaths, ok \in BOOLEAN :
        LET absolutePath == Resolve(Cwd, filePath)
            data     == UpdateData(fData, absolutePath, now + 1)
            newEntry == MapGet(MapSet(fData, FrecencyEntry(absolutePath, 0, 0)),
                               absolutePath)
            compact  == Len(MapSet(fData, FrecencyEntry(absolutePath, 0, 0)))
                            > MAX_FRECENCY_ENTRIES
            saved    == IF compact
                        THEN saveFrecency(fFile, data, ok)
                        ELSE appendFrecencyEntry(fFile, MapGet(data, absolutePath)[1], ok)
        IN  /\ StoreCall("frecency")
            /\ fLoaded \/ InFlight
            /\ now' = now + 1
            /\ fData' = data
            /\ fFile' = saved.file
            /\ call' = Call("updateFrecency", [path |-> absolutePath, ok |-> ok], <<>>,
                            saved.outcome)
            /\ UNCHANGED <<fLoaded, store, loading, hvars, stvars, qvars, evars>>

(***************************************************************************)
(* load() as the steps it takes: the call runs up to the first await, the  *)
(* read yields the lines the file holds at that moment, and the            *)
(* continuation assigns what was read and sets loaded.                     *)
(***************************************************************************)
\* load() of the store, up to await ensureConfigDir(configDir)
LoadCalled ==
    /\ StoreCall(store)
    /\ loading.phase = "none"
    /\ ~(hLoaded \/ sLoaded \/ fLoaded)
    /\ loading' = [phase |-> "called", file |-> <<>>]
    /\ call' = Call("load", <<>>, <<>>, "pending")
    /\ UNCHANGED <<store, hvars, stvars, fvars, qvars, evars>>

\* the read of the file completes with the lines the file holds
LoadRead ==
    /\ loading.phase = "called"
    /\ loading' = [phase |-> "read",
                   file |-> CASE store = "history" -> hFile
                              [] store = "stash" -> sFile
                              [] OTHER -> fFile]
    /\ UNCHANGED <<store, hvars, stvars, fvars, call, storeOps, qvars, evars>>

\* items = await loadHistory(historyFile); loaded = true (and the same in
\* the stash and in the frecency tracker)
LoadResolved ==
    /\ loading.phase = "read"
    /\ loading' = [phase |-> "done", file |-> <<>>]
    /\ CASE store = "history" ->
                /\ hItems' = loadHistory(loading.file)
                /\ hLoaded' = TRUE
                /\ UNCHANGED <<hIndex, hFile, stvars, fvars>>
         [] store = "stash" ->
                /\ sEntries' = loadStash(loading.file)
                /\ sLoaded' = TRUE
                /\ UNCHANGED <<sFile, hvars, fvars>>
         [] OTHER ->
                /\ fData' = loadFrecency(loading.file)
                /\ fLoaded' = TRUE
                /\ UNCHANGED <<fFile, now, hvars, stvars>>
    /\ UNCHANGED <<store, call, storeOps, qvars, evars>>

(***************************************************************************)
(* The stores after construction, over the files earlier sessions left     *)
(***************************************************************************)
Stores == {"history", "stash", "frecency"}

\* files of up to one line more than the store keeps
EntryFiles(max) ==
    UNION {[1..k -> {HistoryEntry(<<"a">>), HistoryEntry(<<"b">>)}] : k \in 0..(max + 1)}

\* the lines of a frecency file were written one after the other
FrecencyFiles ==
    {[k \in 1..Len(ps) |-> FrecencyEntry(Resolve(Cwd, ps[k]), 1, k)] :
         ps \in UNION {[1..n -> FrecencyPaths] : n \in 0..(MAX_FRECENCY_ENTRIES + 1)}}

StoresConstructed ==
    /\ hItems = <<>>
    /\ hIndex = 0
    /\ hLoaded = FALSE
    /\ sEntries = <<>>
    /\ sLoaded = FALSE
    /\ fData = <<>>
    /\ fLoaded = FALSE
    /\ now = MAX_FRECENCY_ENTRIES + 1
    /\ call = Call("create", <<>>, <<>>, "fulfilled")
    /\ storeOps = 0
    /\ loading = [phase |-> "none", file |-> <<>>]

\* no store is exercised
StoreIdle ==
    /\ StoresConstructed
    /\ store = "none"
    /\ hFile = <<>>
    /\ sFile = <<>>
    /\ fFile = <<>>

StoreInit ==
    /\ StoresConstructed
    /\ store \in Stores
    /\ hFile \in (IF store = "history" THEN EntryFiles(MAX_HISTORY_ENTRIES) ELSE {<<>>})
    /\ sFile \in (IF store = "stash" THEN EntryFiles(MAX_STASH_ENTRIES) ELSE {<<>>})
    /\ fFile \in (IF store = "frecency" THEN FrecencyFiles ELSE {<<>>})

StoreNext ==
    \/ HistoryLoad
    \/ HistoryAppend
    \/ HistoryMove
    \/ StashLoad
    \/ StashPush
    \/ StashPop
    \/ StashRemove
    \/ StashClear
    \/ FrecencyLoad
    \/ updateFrecency

(***************************************************************************)
(* Specifications                                                          *)
(***************************************************************************)
Init == QInit /\ PInit /\ StoreIdle

\* bounded buffers and part lists handed to prepareMessageForSubmit
SInit ==
    /\ QInit
    /\ StoreIdle
    /\ EditorInit
    /\ input \in Texts(MaxInput)
    /\ parts \in PartLists(input)

\* the message queue alone
SpecQueue == Init /\ [][QNext]_vars

\* the queue with its scheduled work done eventually: renders, effects and
\* timers run, the transport reflects an issued send in the status, and a
\* response ends with the status ready or error
QueueFairness ==
    /\ WF_vars(Render)
    /\ WF_vars(DrainEffect)
    /\ WF_vars(DeferredSend)
    /\ WF_vars(ChatSubmitted)
    /\ WF_vars(ChatReady \/ ChatError)

SpecQueueLive == Init /\ [][QNext]_vars /\ QueueFairness

\* the prompt editor alone
SpecPrompt == Init /\ [][PNext]_vars

\* prepareMessageForSubmit over bounded buffers and part lists
SpecSubmit == SInit /\ [][PrepareSubmit]_vars

\* the persistent stores, one per behaviour
StoreSpecInit == QInit /\ PInit /\ StoreInit

SpecStore == StoreSpecInit /\ [][StoreNext]_vars

\* the stores called while their load() is in flight
LoadNext ==
    \/ StoreNext
    \/ LoadCalled
    \/ LoadRead
    \/ LoadResolved

SpecStoreLoad == StoreSpecInit /\ [][LoadNext]_vars

(***************************************************************************)
(* Claims about the message queue                                          *)
(***************************************************************************)
NoDuplicateSend == \A i, j \in 1..Len(sent) : i # j => sent[i].id # sent[j].id

\* the drain effect runs on the transition the claim names
AtDrainTransition ==
    /\ effectPending
    /\ prevStatusRef \in Busy
    /\ status = "ready"
    /\ queue # <<>>
    /\ ~isProcessingRef

\* C1: on a transition from submitted/streaming to ready with a non-empty queue and
\* no drain in progress, the effect takes exactly the oldest queued message: it
\* commits the queue without it and schedules one deferred send for it; nothing
\* else schedules a send (no re-render or later transition does), at most one
\* deferred send is outstanding, while it is outstanding the only message
\* sent is that one, and no message is ever sent twice.
C1_DrainSendsOldestOnce ==
    /\ [](Len(timers) <= 1 /\ NoDuplicateSend)
    /\ [][(AtDrainTransition /\ ~effectPending')
            => /\ timers' = <<Head(queue)>>
               /\ updates' = Append(updates, [op |-> "set", val |-> Tail(queue)])
               /\ sent' = sent]_vars
    /\ [][Len(timers') > Len(timers) => AtDrainTransition]_vars
    /\ [][(timers # <<>> /\ sent' # sent)
            => sent' = Append(sent, [id |-> Head(timers).id, via |-> "drain",
                                     status |-> status,
                                     busy |-> (requested \/ status \in Busy)])]_vars

\* C1 witness: a and b queued while busy, each released by its own transition
\* to ready, in order, leaving the queue empty
C1_Witness ==
    /\ Len(sent) = 3
    /\ sent[2].via = "drain" /\ sent[3].via = "drain"
    /\ sent[3].id = sent[2].id + 1
    /\ Pending = <<>> /\ updates = <<>>
    /\ ~tainted

\* C2: without clear/remove/overflow, messages reach sendMessage in submission
\* order, and none is sent while an earlier-submitted one still waits in the queue.
C2_FifoOrder ==
    ~tainted =>
        /\ \A i, j \in 1..Len(sent) : i < j => sent[i].id < sent[j].id
        /\ \A i \in 1..Len(sent) : \A q \in Ids(Pending) : sent[i].id < q

\* C3: a non-blank submitMessage sends at once exactly when the status is ready,
\* the queue is empty and no drain is in progress; otherwise it enqueues and
\* sends nothing.
C3_SendOnlyWhenIdleAndEmpty ==
    [][nextId' # nextId =>
         IF status = "ready" /\ Pending = <<>> /\ ~isProcessingRef
         THEN Len(sent') = Len(sent) + 1 /\ updates' = updates
         ELSE sent' = sent /\ Len(updates') = Len(updates) + 1]_vars

\* C4: sendMessage is never called while the status is submitted or streaming,
\* and at most one message is in flight at any time.
C4_SingleFlight ==
    /\ \A i \in 1..Len(sent) : sent[i].status \notin Busy
    /\ inflight <= 1

\* C5: the queue never holds more than maxQueueSize messages, and an enqueue into
\* a full queue drops exactly the oldest entry and appends the new one, keeping
\* the order of the rest.
C5_BoundedDropOldest ==
    /\ Len(queue) <= maxQueueSize
    /\ Len(Pending) <= maxQueueSize
    /\ \A k \in 1..Len(updates) :
          updates[k].op = "enqueue" =>
              LET before == ApplyAll(queue, SubSeq(updates, 1, k - 1))
                  after  == ApplyAll(queue, SubSeq(updates, 1, k))
              IN  IF Len(before) >= maxQueueSize
                  THEN after = Append(Tail(before), updates[k].msg)
                  ELSE after = Append(before, updates[k].msg)

\* C5 witness: an enqueue into a full queue is pending
C5_Witness ==
    /\ updates # <<>>
    /\ updates[1].op = "enqueue"
    /\ Len(queue) = maxQueueSize

\* C6: no message that was queued when clearQueue was called is sent afterwards.
C6_ClearedNeverSent ==
    \A i \in 1..Len(sent) : sent[i].id \notin cleared

(***************************************************************************)
(* Claims about the submit payload                                         *)
(***************************************************************************)
\* the path a percent-encoded pathname denotes
RECURSIVE PercentDecode(_)
PercentDecode(s) ==
    IF s = <<>> THEN <<>>
    ELSE <<IF Head(s) = "%20" THEN " " ELSE Head(s)>> \o PercentDecode(Tail(s))

\* the absolute path a file URL denotes, with the #start-end suffix of its
\* query parameters; a string that is no URL denotes itself
ResolvedPath(url) ==
    IF ValidUrl(url)
    THEN PercentDecode(Slice(url, 1, QueryIndex(url)))
             \o (IF SearchParam(url, "?start=") # ""
                 THEN <<"#", SearchParam(url, "?start=")>>
                          \o (IF SearchParam(url, "&end=") # ""
                              THEN <<"-", SearchParam(url, "&end=")>>
                              ELSE <<>>)
                 ELSE <<>>)
    ELSE url

\* the text and the attachments the claimed fold gives for a segment list
RECURSIVE ClaimedText(_)
ClaimedText(segs) ==
    IF segs = <<>> THEN <<>>
    ELSE LET seg == Head(segs)
         IN  (CASE seg.type = "text"    -> seg.text
                [] seg.type = "image"   -> seg.displayText
                [] seg.type = "fileRef" -> ResolvedPath(seg.url)
                [] seg.type = "agent"   -> seg.displayText)
             \o ClaimedText(Tail(segs))

RECURSIVE ClaimedFiles(_)
ClaimedFiles(segs) ==
    IF segs = <<>> THEN <<>>
    ELSE (IF Head(segs).type = "image"
          THEN <<[type |-> "file", mediaType |-> Head(segs).mime,
                  filename |-> Head(segs).filename, url |-> Head(segs).url]>>
          ELSE <<>>)
         \o ClaimedFiles(Tail(segs))

\* C7: the payload is the left-to-right fold of the segments: plain text and
\* badge texts literally, the absolute path (with its #start-end suffix) for a
\* non-image file reference, and one attachment per image segment in buffer
\* order and nothing else.
C7_PayloadIsFoldOfSegments ==
    prepared # <<>> =>
        /\ prepared[1].text = ClaimedText(segments[1])
        /\ prepared[1].files = ClaimedFiles(segments[1])

\* the ranges of the parts lie in the buffer and do not overlap
InBounds(text, ps) ==
    \A i \in 1..Len(ps) :
        HasSourceText(ps[i]) =>
            /\ 0 <= ps[i].source.text.start
            /\ ps[i].source.text.start <= ps[i].source.text.end
            /\ ps[i].source.text.end <= Len(text)

NonOverlapping(ps) ==
    \A i, j \in 1..Len(ps) :
        (i < j /\ HasSourceText(ps[i]) /\ HasSourceText(ps[j])) =>
            \/ ps[i].source.text.end <= ps[j].source.text.start
            \/ ps[j].source.text.end <= ps[i].source.text.start

\* segments rendered back to flat text
RECURSIVE RenderSegments(_)
RenderSegments(segs) ==
    IF segs = <<>> THEN <<>>
    ELSE (IF Head(segs).type = "text" THEN Head(segs).text ELSE Head(segs).displayText)
         \o RenderSegments(Tail(segs))

\* C8: for a buffer and parts (file, image, agent or pasted-text badge) with
\* in-bounds, non-overlapping ranges, the texts of the segments of
\* deriveSegments concatenated in order are the buffer text.
C8_SegmentRoundTrip ==
    (segments # <<>> /\ InBounds(input, parts) /\ NonOverlapping(parts)) =>
        RenderSegments(segments[1]) = input

(***************************************************************************)
(* Claims about the editor                                                 *)
(***************************************************************************)
\* every state update has been rendered
Rendered == promptUpdates = <<>> /\ stateUpdates = <<>> /\ optionsUpdates = <<>>

\* the live annotations over exactly [start, end)
AnnotationsOver(start, end) == {e \in extmarks : e.start = start /\ e.end = end}

\* the annotation created for parts[k] is live
Annotated(k) == \E e \in extmarks : <<e.id, k - 1>> \in extmarkToPartIndexRef

\* C9: after any sequence of candidate insertions, pastes and buffer edits (in
\* particular text typed or deleted before a reference), every Part that
\* carries a source range and whose annotation is live has that range equal to
\* the [start, end) of exactly one live annotation.
C9_PartRangesMatchAnnotations ==
    Rendered =>
        \A k \in 1..Len(parts) :
            (HasSourceText(parts[k]) /\ Annotated(k)) =>
                Cardinality(AnnotationsOver(parts[k].source.text.start,
                                            parts[k].source.text.end)) = 1

\* the step is the selection of a '#' or '@' candidate, made on an up-to-date
\* render with the cursor behind the trigger
SelectsCandidate ==
    /\ edits' = edits + 1
    /\ lastEvent' = "select"
    /\ visible \in {"#", "@"}
    /\ Rendered
    /\ triggerIndex < cursorOffset
    /\ selectedIndex < Len(filteredOptions)
    /\ filteredOptions[selectedIndex + 1].hasPart

\* prefix + value of the highlighted candidate
SelectedText ==
    LET selected == filteredOptions[selectedIndex + 1]
    IN  <<IF selected.part.type = "file" THEN "#" ELSE "@">>
            \o TrimEnd(OptionText(selected))

\* C10: selecting a '#' or '@' candidate while Active(t, i) with the cursor at c
\* deletes buffer[i..c), inserts prefix+value followed by one space unless the
\* next character is already whitespace, creates one annotation over exactly
\* [i, i+len(prefix+value)), appends one Part with that source range, and
\* returns the session to Idle.
C10_SelectInsertsCandidate ==
    [][SelectsCandidate =>
         LET i == triggerIndex
             c == cursorOffset
             space == IF CharAt(plainText, c) \in Whitespace THEN <<>> ELSE <<" ">>
             created == {e \in extmarks' : \A x \in extmarks : x.id # e.id}
             added == SubSeq(promptUpdates', Len(promptUpdates) + 1, Len(promptUpdates'))
             appended == SelectSeq(added, LAMBDA u : u.op \in {"insertPart", "paste"})
         IN  /\ plainText' = Slice(plainText, 0, i) \o SelectedText \o space
                                 \o Slice(plainText, c, Len(plainText))
             /\ created = {[id |-> nextExtmarkId, start |-> i,
                            end |-> i + Len(SelectedText)]}
             /\ Len(appended) = 1
             /\ appended[1].part.source.text.start = i
             /\ appended[1].part.source.text.end = i + Len(SelectedText)
             /\ ApplyStateUpdates([visible |-> visible, triggerIndex |-> triggerIndex,
                                   selectedIndex |-> selectedIndex],
                                  stateUpdates').visible = "false"]_vars

\* the step is an accepted submit, a matched slash command or an explicit clear
ResetStep ==
    /\ edits' = edits + 1
    /\ \/ lastEvent' \in {"clear", "command"}
       \/ lastEvent' = "submit" /\ Len(submitted') = Len(submitted) + 1

\* C11: after an accepted submit (message or matched slash command) and after
\* an explicit clear, the buffer text, the Part list, the annotation set and
\* the annotation-to-part map are all empty and the cursor is at 0, in the
\* textarea at once and in the prompt state the next render shows.
C11_ResetIsAtomic ==
    [][ResetStep =>
         /\ plainText' = <<>>
         /\ cursorOffset' = 0
         /\ extmarks' = {}
         /\ extmarkToPartIndexRef' = {}
         /\ NextPrompt'.input = <<>>
         /\ NextPrompt'.parts = <<>>
         /\ NextPrompt'.map = {}]_vars

\* every live annotation lies within the buffer
AnnotationsInBounds ==
    \A e \in extmarks : 0 <= e.start /\ e.start <= e.end /\ e.end <= Len(plainText)

\* no two live annotations share an offset
AnnotationsDisjoint ==
    \A e1, e2 \in extmarks :
        e1.id # e2.id => (e1.end <= e2.start \/ e2.end <= e1.start)

\* every live annotation is mapped, and only to indices of the Part list
AnnotationsHaveLiveParts ==
    \A e \in extmarks :
        /\ \E m \in extmarkToPartIndexRef : m[1] = e.id
        /\ \A m \in extmarkToPartIndexRef : m[1] = e.id => m[2] < Len(parts)

\* C12: for any sequence of buffer inserts and deletes and annotation creations
\* (candidate insertion, image paste, badge paste), once the prompt is rendered
\* all remaining annotations satisfy 0 <= start <= end <= buffer.length, no two
\* annotations overlap, and every annotation's partIndex refers to a live entry
\* of the Part list.
C12_AnnotationsWellFormed ==
    Rendered =>
        /\ AnnotationsInBounds
        /\ AnnotationsDisjoint
        /\ AnnotationsHaveLiveParts

(***************************************************************************)
(* Claims about the persistent stores                                      *)
(***************************************************************************)
\* the step is a call of the named operation of the named store
StoreStep(name, op) ==
    /\ store = name
    /\ storeOps' = storeOps + 1
    /\ call'.op = op

\* C13: history.append is a no-op when the input is empty or whitespace-only,
\* or exactly equal to the input of the last stored entry; otherwise it adds
\* exactly one entry at the end (the oldest entry making room when the history
\* is full).  The same input twice in a row is stored once, the same input
\* after a different one is stored again.
C13_AppendSuppressesConsecutiveDuplicates ==
    [][StoreStep("history", "append") =>
         LET entry == call'.arg.entry
             blank == \A k \in 1..Len(entry.input) : entry.input[k] \in Whitespace
             same  == hItems # <<>> /\ hItems[Len(hItems)].input = entry.input
         IN  IF blank \/ same
             THEN hItems' = hItems
             ELSE IF Len(hItems) < MAX_HISTORY_ENTRIES
             THEN hItems' = Append(hItems, entry)
             ELSE hItems' = Append(Tail(hItems), entry)]_vars

\* an input stored again after a different one
C13_Witness ==
    /\ call.op = "append"
    /\ call.arg.entry.input = <<"a">>
    /\ hItems = <<HistoryEntry(<<"b">>), HistoryEntry(<<"a">>)>>
    /\ hFile = <<HistoryEntry(<<"b">>), HistoryEntry(<<"a">>)>>
    /\ storeOps = 4

\* the entry at the history cursor, the empty entry at cursor 0
EntryAtCursor == IF hIndex = 0 THEN <<EmptyEntry>> ELSE At(hItems, hIndex)

\* C14: history navigation in either direction is refused (returns no entry
\* and leaves the cursor unchanged) whenever the live input is non-empty and
\* differs from the entry at the current cursor, at any cursor position, the
\* entry at cursor 0 being the empty entry.
C14_EditedDraftNotReplaced ==
    [][(/\ StoreStep("history", "move")
        /\ call'.arg.currentInput # <<>>
        /\ EntryAtCursor # <<>>
        /\ EntryAtCursor[1].input # call'.arg.currentInput)
       => (call'.returned = <<>> /\ hIndex' = hIndex)]_vars

\* the history cursor is within the stored entries
CursorInRange == -Len(hItems) <= hIndex /\ hIndex <= 0

\* C15: the history cursor starts at 0 and after any sequence of append/move
\* calls satisfies -len(items) <= cursor <= 0; a move that the edit guard does
\* not refuse steps by direction and returns the entry it arrives at (the empty
\* entry at 0); a move past the oldest entry or above 0 returns nothing and
\* leaves the cursor unchanged.
C15_HistoryCursorBounds ==
    /\ hIndex = 0
    /\ [][(store = "history" /\ storeOps' = storeOps + 1) =>
            /\ CursorInRange'
            /\ (/\ call'.op = "move"
                /\ \/ call'.arg.currentInput = <<>>
                   \/ EntryAtCursor = <<HistoryEntry(call'.arg.currentInput)>>
                   \/ hIndex = 0)
               => LET n == hIndex + call'.arg.direction
                  IN  IF n < -Len(hItems) \/ n > 0
                      THEN call'.returned = <<>> /\ hIndex' = hIndex
                      ELSE /\ hIndex' = n
                           /\ call'.returned =
                                  IF n = 0 THEN <<EmptyEntry>>
                                  ELSE <<hItems[Len(hItems) + n + 1]>>]_vars

\* a move past the oldest of two entries was refused
C15_Witness ==
    /\ call.op = "move"
    /\ call.arg.direction = -1
    /\ call.returned = <<>>
    /\ Len(hItems) = MAX_HISTORY_ENTRIES
    /\ hIndex = -Len(hItems)

\* the paths of a frecency map
PathsOf(data) == {data[k].path : k \in 1..Len(data)}

LastOpenOf(data, path) == MapGet(data, path)[1].lastOpen

\* C16: after any sequence of operations, load included, the in-memory history
\* and stash each hold at most their maximum of entries and the frecency map
\* at most its maximum of paths; when a bound is exceeded the entries discarded
\* are the oldest history/stash entries, respectively the least recently
\* accessed frecency paths, never the entry just added.
C16_StoresBounded ==
    [][storeOps' = storeOps + 1 =>
         /\ Len(hItems') <= MAX_HISTORY_ENTRIES
         /\ Len(sEntries') <= MAX_STASH_ENTRIES
         /\ Len(fData') <= MAX_FRECENCY_ENTRIES
         /\ (StoreStep("history", "append") /\ hItems' # hItems) =>
                \E n \in {0, 1} :
                    hItems' = SubSeq(hItems, n + 1, Len(hItems)) \o <<call'.arg.entry>>
         /\ (StoreStep("stash", "push") /\ sEntries' # sEntries) =>
                \E n \in {0, 1} :
                    sEntries' = SubSeq(sEntries, n + 1, Len(sEntries))
                                    \o <<call'.arg.entry>>
         /\ StoreStep("frecency", "updateFrecency") =>
                LET added  == call'.arg.path
                    before == PathsOf(fData) \cup {added}
                    kept   == PathsOf(fData')
                IN  /\ added \in kept
                    /\ kept \subseteq before
                    /\ Cardinality(kept) = Min(Cardinality(before), MAX_FRECENCY_ENTRIES)
                    /\ \A d \in before \ kept : \A k \in kept \ {added} :
                           LastOpenOf(fData, d) <= LastOpenOf(fData, k)]_vars

\* a full frecency map took a new path and was compacted: the new path is
\* first, as the most recent, and the file was rewritten
C16_Witness ==
    /\ call.op = "updateFrecency"
    /\ Len(fData) = MAX_FRECENCY_ENTRIES
    /\ fData[1].path = call.arg.path
    /\ fData[1].frequency = 1
    /\ fFile = fData

\* C17: when a persistence step fails (directory creation, single-line append
\* or full rewrite), history.append, stash.push/pop/remove/clear and
\* frecency.updateFrecency still complete without raising to the caller and
\* leave exactly the in-memory state they would have left had the write
\* succeeded.
C17_FailedWriteIsSwallowed ==
    [][(storeOps' = storeOps + 1 /\ call'.op # "load" /\ call'.op # "move"
            /\ ~call'.arg.ok) =>
         /\ call'.outcome = "fulfilled"
         /\ <<hFile', sFile', fFile'>> = <<hFile, sFile, fFile>>
         /\ call'.op = "append" => hItems' = AppendItems(hItems, call'.arg.entry)
         /\ call'.op = "push" => sEntries' = PushEntries(sEntries, call'.arg.entry)
         /\ call'.op = "pop" =>
                /\ sEntries' = SubSeq(sEntries, 1, Len(sEntries) - 1)
                /\ call'.returned = <<sEntries[Len(sEntries)]>>
         /\ call'.op = "remove" => sEntries' = Splice(sEntries, call'.arg.index)
         /\ call'.op = "clear" => sEntries' = <<>>
         /\ call'.op = "updateFrecency" =>
                fData' = UpdateData(fData, call'.arg.path, now')]_vars

\* a push whose write failed: the entry is stashed, the file is still empty
C17_Witness ==
    /\ call.op = "push"
    /\ ~call.arg.ok
    /\ call.outcome = "fulfilled"
    /\ sEntries = <<call.arg.entry>>
    /\ sFile = <<>>

\* the step delivers one content-change event to an Idle, rendered session
ContentChangeWhileIdle ==
    /\ edits' = edits + 1
    /\ lastEvent' \in {"char", "backspace"}
    /\ visible = "false"
    /\ stateUpdates = <<>>

\* offset i holds the nearest c before the cursor, no space lies between i and
\* the cursor, and the character before i is absent or whitespace
Triggers(text, cursor, c, i) ==
    /\ i < cursor
    /\ text[i + 1] = c
    /\ \A j \in (i + 1)..(cursor - 1) : text[j + 1] # c
    /\ \A j \in i..(cursor - 1) : text[j + 1] # " "
    /\ i = 0 \/ text[i] \in Whitespace

\* C18: on a content-change event while Idle, '#' (resp. '@') autocomplete
\* becomes Active with triggerIndex i if and only if i is the nearest '#'
\* (resp. '@') before the cursor, no space lies between offset i and the
\* cursor, and the character immediately before i is absent or whitespace.
C18_TriggerBoundary ==
    [][ContentChangeWhileIdle =>
         \A c \in {"#", "@"} : \A i \in 0..Len(plainText') :
             (NextState'.visible = c /\ NextState'.triggerIndex = i)
                 <=> Triggers(plainText', cursorOffset', c, i)]_vars


\* C19: whenever the autocomplete session is Active and at least one candidate
\* passes the filter, selectedIndex lies in 0..filteredCount-1, also after the
\* filter text changed and the candidate list shrank.
C19_SelectedIndexInRange ==
    (visible # "false" /\ Len(filteredOptions) > 0)
        => selectedIndex \in 0..(Len(filteredOptions) - 1)


\* C20: a file-search response that completes when the autocomplete session is
\* Idle or belongs to another trigger (in the last render and in the state the
\* next render will show) is discarded: it does not replace the candidates.
C20_StaleResponseDiscarded ==
    [][(SearchResolved /\ visible # "#" /\ NextState.visible # "#")
           => optionsUpdates' = optionsUpdates]_vars


(***************************************************************************)
(* Claims about the drain, the segment walk and the autocomplete session   *)
(***************************************************************************)
\* C21: when the deferred send of a drained message m runs, the removal of m
\* has been committed: m is not in the queue state of the last render.
C21_DequeueCommittedBeforeSend ==
    [][DeferredSend => Head(timers).id \notin Ids(queue)]_vars



\* C22: when every annotation has been deleted by buffer edits, the Parts left
\* in the list are orphaned and a submit made on an up-to-date render sends
\* nothing derived from them: no files, and the buffer as plain text.
C22_OrphanedPartsExcluded ==
    [][(Len(submitted') = Len(submitted) + 1 /\ Rendered /\ extmarks = {}
           /\ parts # <<>>)
          => submitted'[Len(submitted')] = [text |-> Trim(input), files |-> <<>>]]_vars


\* a user event other than Escape and candidate selection, handled on an
\* up-to-date render while the session is Active
EventWhileActive ==
    /\ edits' = edits + 1
    /\ lastEvent' \notin {"escape", "select"}
    /\ visible # "false"
    /\ Rendered

\* the conditions under which an Active(t, i) session ends, on the buffer and
\* the cursor the event leaves
SessionEnds(t, i, text, cursor) ==
    \/ cursor <= i
    \/ Includes(Slice(text, i, cursor), " ")
    \/ (t = "/" /\ SlashCommandComplete(text))

\* C23: while the session is Active(t, i), an event other than Escape and
\* selection returns it to Idle if and only if the cursor is at or before i,
\* or a space lies between i and the cursor, or (for '/') the buffer matches
\* the command-complete pattern; otherwise it stays Active(t, i).
C23_ActiveUntilBoundary ==
    [][EventWhileActive =>
          IF SessionEnds(visible, triggerIndex, plainText', cursorOffset')
          THEN NextState'.visible = "false"
          ELSE /\ NextState'.visible = visible
               /\ NextState'.triggerIndex = triggerIndex]_vars


\* Escape pressed on an up-to-date render while the session is Active, with
\* the trigger character at triggerIndex and the cursor behind it
EscapeWhileActive ==
    /\ edits' = edits + 1
    /\ lastEvent' = "escape"
    /\ visible # "false"
    /\ Rendered
    /\ triggerIndex < cursorOffset
    /\ plainText[triggerIndex + 1] = visible

\* the buffer without its leading token (the run of non-whitespace it starts with)
WithoutFirstToken(text) == Slice(text, Len(FirstToken(text)), Len(text))

\* C24: Escape while Active always leaves the session Idle; for '/' with no
\* space typed the whole slash token is removed from the buffer, and in every
\* other case the buffer is unchanged.
C24_EscapeClosesSession ==
    [][EscapeWhileActive =>
          /\ NextState'.visible = "false"
          /\ plainText' = IF visible = "/" /\ ~Includes(plainText, " ")
                          THEN WithoutFirstToken(plainText)
                          ELSE plainText]_vars


\* Tab pressed on an up-to-date render of a '#' session, with a directory
\* highlighted and the cursor behind the trigger character
TabOnDirectory ==
    /\ edits' = edits + 1
    /\ lastEvent' = "tab"
    /\ visible = "#"
    /\ Rendered
    /\ triggerIndex < cursorOffset
    /\ plainText[triggerIndex + 1] = "#"
    /\ DirectoryHighlighted

\* Return, or Tab on a candidate that is not a directory, pressed on an
\* up-to-date render with a candidate highlighted
TerminalSelection ==
    /\ edits' = edits + 1
    /\ lastEvent' = "select"
    /\ visible # "false"
    /\ Rendered
    /\ selectedIndex < Len(filteredOptions)

\* C25: Tab on a highlighted directory rewrites the trigger-to-cursor token to
\* '#' plus the directory path, creates no annotation and no Part and leaves
\* the session Active with the same triggerIndex; Return, and Tab on another
\* candidate, are selections that return the session to Idle.
C25_TabExpandsDirectory ==
    [][/\ TabOnDirectory =>
            /\ plainText' = Slice(plainText, 0, triggerIndex) \o <<"#">>
                              \o filteredOptions[selectedIndex + 1].value
                              \o Slice(plainText, cursorOffset, Len(plainText))
            /\ extmarks' = extmarks
            /\ nextExtmarkId' = nextExtmarkId
            /\ NextPrompt'.parts = parts
            /\ NextState'.visible = "#"
            /\ NextState'.triggerIndex = triggerIndex
       /\ TerminalSelection => NextState'.visible = "false"]_vars


(***************************************************************************)
(* Claims about the stores and their files                                 *)
(***************************************************************************)
\* the calls that write to the file of their store
WriteOps == {"append", "push", "pop", "remove", "clear", "updateFrecency"}

\* the last call was a write that failed
WriteFailed == call.op \in WriteOps /\ ~call.arg.ok

\* the entries of a sequence, as a collection
Entries(s) == {s[k] : k \in 1..Len(s)}

\* loading the file of each loaded store yields what the store holds
ReplayReproducesMemory ==
    /\ hLoaded => loadHistory(hFile) = hItems
    /\ sLoaded => loadStash(sFile) = sEntries
    /\ fLoaded => Entries(loadFrecency(fFile)) = Entries(fData)

\* the same of the state a step leads to
ReplayReproducesMemoryAfter ==
    \A hf \in {hFile'}, sf \in {sFile'}, ff \in {fFile'} :
        /\ hLoaded' => loadHistory(hf) = hItems'
        /\ sLoaded' => loadStash(sf) = sEntries'
        /\ fLoaded' => Entries(loadFrecency(ff)) = Entries(fData')

\* the file after a write: one line appended, or the store's content written
\* over it; a call that changes nothing writes nothing
Persisted(file, fileAfter, memory, memoryAfter, max) ==
    \/ fileAfter = file /\ memoryAfter = memory
    \/ /\ Len(memoryAfter) <= max
       /\ Len(fileAfter) = Len(file) + 1
       /\ SubSeq(fileAfter, 1, Len(file)) = file
    \/ fileAfter = memoryAfter

\* C26: for each store, as long as the writes succeed, loading the file after
\* any sequence of operations yields the collection the store holds: a call
\* whose write succeeds keeps the two in step, persisting the mutation as one
\* appended line or as a rewrite of the file with the content of the store.
C26_ReplayReproducesMemory ==
    [][(~WriteFailed' /\ ReplayReproducesMemory) =>
          /\ ReplayReproducesMemoryAfter
          /\ call'.op \in WriteOps =>
                /\ Persisted(hFile, hFile', hItems, hItems', MAX_HISTORY_ENTRIES)
                /\ Persisted(sFile, sFile', sEntries, sEntries', MAX_STASH_ENTRIES)
                /\ Persisted(fFile, fFile', fData, fData', MAX_FRECENCY_ENTRIES)]_vars

\* an access was appended to a frecency log that holds superseded records,
\* and the replay of the log yields the tracker's data
C26_Witness ==
    /\ call.op = "updateFrecency"
    /\ call.arg.ok
    /\ Len(fFile) > Len(fData)
    /\ Len(fData) = MAX_FRECENCY_ENTRIES
    /\ Entries(loadFrecency(fFile)) = Entries(fData)


(***************************************************************************)
(* Liveness and loss in the queue                                          *)
(***************************************************************************)
\* the ids of the messages handed to sendMessage so far
SentIds == {sent[k].id : k \in 1..Len(sent)}

\* C27: under fairness, a message that is in the queue is eventually sent,
\* unless the queue overflowed or clearQueue or removeFromQueue was called.
C27_QueuedEventuallySent ==
    \A n \in 1..MaxSubmits :
        (n \in Ids(queue)) ~> (n \in SentIds \/ tainted)


\* the step takes message n out of the queue by one of the four ways: the
\* drain scheduling its send, an overflow drop, clearQueue, removeFromQueue
LeavesByKnownWay(n) ==
    \/ DrainEffect /\ timers' = Append(timers, QueuedMessage(n))
    \/ submitMessage /\ Len(Pending) >= maxQueueSize /\ Head(Pending).id = n
    \/ clearQueue
    \/ removeFromQueue

\* C28: a message of the queue (the committed state with the scheduled
\* setQueue calls applied) stays in it unless the drain takes it for sending,
\* it is the oldest when the queue overflows, or clearQueue or
\* removeFromQueue is called; in particular an enqueue made between a render
\* and the drain of its effect is still in the queue afterwards.
C28_NoQueuedMessageLost ==
    [][\A n \in Ids(Pending) :
          n \in Ids(Pending') \/ LeavesByKnownWay(n)]_vars


(***************************************************************************)
(* Mutations while load() is in flight                                     *)
(***************************************************************************)
\* the paths a frecency collection has a record for
Paths(s) == {s[k].path : k \in 1..Len(s)}

\* C29: an entry that append, push or updateFrecency put into the store (and
\* wrote to its file) while load() was in flight is still in the store once
\* load() has assigned what it read.
C29_EarlyMutationKept ==
    [][LoadResolved =>
          /\ \A e \in Entries(hItems) \cap Entries(hFile) : e \in Entries(hItems')
          /\ \A e \in Entries(sEntries) \cap Entries(sFile) : e \in Entries(sEntries')
          /\ \A p \in Paths(fData) \cap Paths(fFile) : p \in Paths(fData')]_vars


(***************************************************************************)
(* The keybind suspend count                                               *)
(***************************************************************************)
\* C30: the keybind suspend count is never negative, and once the component
\* has rendered the events handled so far it is 1 while the autocomplete
\* session is Active and 0 while it is Idle.
C30_SuspendCountTracksSession ==
    /\ suspendCount >= 0
    /\ Rendered => suspendCount = (IF visible # "false" THEN 1 ELSE 0)

====
